---- MODULE Spec2Model ----
(***************************************************************************)
(* Verification model of frouter's probing core and terminal front end.    *)
(*                                                                         *)
(*   src/src/lib/ping.ts   pooled, ping, pingAllOnce, startPingLoop,       *)
(*                         stopPingLoop                                    *)
(*   src/unnamed/part_011  (src/lib/utils.ts) rolling metrics cache        *)
(*   src/unnamed/part_012  (src/bin/frouter.ts) restartLoop, key handlers, *)
(*                         onData / flushEsc, throttledRender              *)
(*                                                                         *)
(* Node runs one macrotask (I/O callback, timer, key event) at a time and  *)
(* drains the microtask queue before the next one, so every action below   *)
(* is one macrotask together with the promise continuations it triggers.   *)
(*                                                                         *)
(* The module holds several specifications over one set of variables; each *)
(* specification moves the variables of its own component and leaves the   *)
(* others at their initial value.                                          *)
(*   SpecPooled   the concurrency limiter pooled()                         *)
(*   SpecPing     one ping(): the race of response, error and timer        *)
(*   SpecMetrics  one entity's history ring and rolling metrics snapshot   *)
(*   SpecProbe    pingAllOnce rounds driven by startPingLoop/stopPingLoop, *)
(*                overlapping after restartLoop                            *)
(*   SpecProbeHost   SpecProbe plus what the host does between probe       *)
(*                completions: metric reads (render, sort), epoch bumps    *)
(*   SpecInput    the raw input dispatcher: escape buffering and splitting *)
(*   SpecRender   the frame throttle throttledRender and direct renders    *)
(*   SpecStart    process start: main() up to the first round or the fatal *)
(*                exit, the quit keys, and the rounds of runBest (--best)  *)
(*   SpecRefresh  the host's entity list across refreshModels, with probes *)
(*                of the replaced objects still in flight                  *)
(*   SpecBackoff  one entity's failure counter and skip-until over many    *)
(*                rounds                                                   *)
(*   SpecScreen   the four screens of the TUI: the keys that move between  *)
(*                them, the probing loop's running flag, refreshes, timers *)
(*   SpecView     the same handlers under the keys that work on the list:  *)
(*                navigation, search, tier filter, sort                    *)
(***************************************************************************)
EXTENDS Integers, Sequences, FiniteSets, TLC

VARIABLES
  \* ---- pooled(items, limit, fn, onEach) : src/src/lib/ping.ts 45-65 ----
  pPc,        \* "idle" before the call, "running", "done" once pooled resolved
  pLen,       \* items.length (the items are 1..pLen)
  pLimit,     \* limit
  pI,         \* the shared claim counter i
  pActive,    \* indices whose fn promise is started and not yet settled
  pWorkers,   \* number of next() chains that have not returned
  pCalls,     \* per index: how many times fn was invoked
  pResults,   \* results[] : per index "none" | "ok" | "rej"
  pEach       \* onEach invocations in order: <<index, result>>

pooledVars == <<pPc, pLen, pLimit, pI, pActive, pWorkers, pCalls, pResults, pEach>>

VARIABLES
  \* ---- ping(apiKey, modelId, chatUrl, options) : src/src/lib/ping.ts 77-145 ----
  kPc,        \* "idle" before the call, "inflight" once the request is written
  kTimeoutMs, \* the timeoutMs the timer was armed with
  kSettled,   \* let settled
  kTimer,     \* "none" | "armed" | "cleared" (clearTimeout, also by the timer itself)
  kOutcome,   \* the value the promise resolved with, NoOutcome before
  kResolves,  \* how many times resolve() was called
  kDestroyed, \* req.destroy() was called
  kSignals    \* the signals delivered so far, in order

pingVars == <<kPc, kTimeoutMs, kSettled, kTimer, kOutcome, kResolves, kDestroyed, kSignals>>

VARIABLES
  \* ---- one entity under the history/metrics functions ----
  \* src/unnamed/part_011 28-190, src/src/lib/ping.ts 186-187
  aVia,       \* who appends: "apply" (applyModelPingResult) | "runPing" (pingAllOnce.runPing)
  aEnabled,   \* METRICS_CACHE_ENABLED
  aMaxPings,  \* the maxPings argument of applyModelPingResult
  aModel,     \* the entity: [pings, metrics]
  aLog,       \* every outcome appended so far, in arrival order
  aCheck      \* what assertModelMetricsInvariant returned in the last step, or NoCheck

metricsVars == <<aVia, aEnabled, aMaxPings, aModel, aLog, aCheck>>

VARIABLES
  \* ---- the probing system : src/src/lib/ping.ts 152-259, part_012 1296-1309 ----
  roundCounter, \* let _roundCounter
  round0,       \* _roundCounter in the initial state of the run
  models,       \* the entity objects: per entity [pings, status, httpCode, fails,
                \*   skipUntil, metrics] (fails = _consecutiveFails, skipUntil = _skipUntilRound)
  calls,        \* the pingAllOnce invocations that have not returned
  pingRef,      \* the loop ref of the host: [id, running, timer]
  pingEpoch,    \* the ping epoch the tests bump (bumpPingEpoch / getPingEpoch)
  dispatchSeq,  \* per entity: how many probes were issued for it so far
  appendSeq,    \* per entity: dispatch number of the probe appended last
  finished,     \* the pingAllOnce invocation that returned last
  stoppedLoops, \* the ids of the loops stopPingLoop was called on
  ev            \* the last step: [kind, ent, code, seq, epoch, loop, each, update]
                \*   (loop: the loop whose tick() ran the round; each / update:
                \*   onEachPing / onUpdate was invoked in the step)

probeVars ==
  <<roundCounter, round0, models, calls, pingRef, pingEpoch, dispatchSeq, appendSeq,
    finished, stoppedLoops, ev>>

VARIABLES
  \* ---- the raw input dispatcher : src/unnamed/part_012 1128-1237 ----
  escBuf,     \* let escBuf: the buffered characters, << >> for ""
  escTimer,   \* let escTimer: {} for null, {n} for a timer due in n ms
  dispatched, \* the arguments of the dispatch() calls so far, in order
  inLog,      \* what the event loop delivered so far: stdin chunks and timer expiries
  idle        \* ms since the last stdin chunk

inputVars == <<escBuf, escTimer, dispatched, inLog, idle>>

VARIABLES
  \* ---- the frame throttle : src/unnamed/part_012 1132-1159 ----
  clock,          \* Date.now()
  lastRenderTime, \* let _lastRenderTime
  renderTimer,    \* let _renderTimer: {} for null, {id} for a timeout handle
  timeouts,       \* the timeouts of the event loop that are pending: [id, due]
  lastFrame,      \* the frame written last: {} or {[at, via]}
  lastThrottled,  \* {} or {when throttledRender or its timer wrote a frame last}
  dirty,          \* the view state changed since the last frame was written
  rEv             \* the last step: [kind, wrote]

renderVars ==
  <<clock, lastRenderTime, renderTimer, timeouts, lastFrame, lastThrottled, dirty, rEv>>

VARIABLES
  \* ---- the host's entity list across refreshModels : part_012 1257-1280 ----
  hObjs,      \* the entity objects ever created, by object number:
              \*   [key, pings, status, httpCode, fails, skipUntil]; pings is the
              \*   number of the history array the object refers to
  hArrays,    \* the history arrays ever created, by array number
  hModels,    \* let models: the object numbers of the list, in list order
  hFlight,    \* the objects a runPing closure holds while its ping() is pending
  hMerged,    \* the objects of hFlight whose identity a refresh has carried over
  hRound,     \* let _roundCounter
  hLoop,      \* pingRef.running
  hScreen,    \* let screen: "main" | "settings"
  hFetch,     \* refreshModels() is awaiting getAllModels(config)
  hEv         \* the last step: [kind, obj, code, before, fresh]

refreshVars ==
  <<hObjs, hArrays, hModels, hFlight, hMerged, hRound, hLoop, hScreen, hFetch, hEv>>

VARIABLES
  \* ---- process start, --best : src/unnamed/part_012 1525-1614 ----
  bArgs,      \* [best, tty, keys, catalog]: the flag and the environment at start
  bPc,        \* "start" | "wizard" | "rounds" (runBest awaits pingAllOnce) |
              \*   "running" (interactive loop started) | "exited"
  bExit,      \* the code passed to process.exit, -1 while the process runs
  bStderr,    \* the error messages written to stderr
  bStdout,    \* the entity printed on stdout by runBest, "-" if none
  bRound,     \* how many pingAllOnce calls the process has made
  bCounter,   \* let _roundCounter
  bList,      \* let models: the entity list
  bModels,    \* the entity objects: [pings, status, httpCode, fails, skipUntil, metrics]
  bEv         \* the last step: [kind, found (what findBestModel returned last), early]

startVars == <<bArgs, bPc, bExit, bStderr, bStdout, bRound, bCounter, bList, bModels, bEv>>

VARIABLES
  \* ---- backoff of one entity over many rounds : src/src/lib/ping.ts 157-204 ----
  oModel,     \* the entity: [pings, status, httpCode, fails, skipUntil, metrics]
  oCounter,   \* let _roundCounter
  oFlight,    \* how many runPing calls on the entity await their ping()
  oEv         \* the last step: [kind, code, round (_roundCounter at the commit),
              \*   fails, skipUntil (the entity's values before the commit)]

backoffVars == <<oModel, oCounter, oFlight, oEv>>

VARIABLES
  \* ---- the interactive screens : src/unnamed/part_012 125-149 ----
  ui,         \* the module state of the TUI: [screen, cursor, scrollOff, sortCol,
              \*   sortAsc, searchMode, searchQuery, tierFilter, pingMs,
              \*   userNavigated, models, filtered, sEditing, tCursor,
              \*   running (pingRef.running, FALSE while pingRef is null),
              \*   fetching (refreshModels calls awaiting getAllModels),
              \*   timers (pending delayed returns to the main screen),
              \*   rows (terminal height), renderTimer (_renderTimer is set),
              \*   renderFresh, loaded (the first load is over), exited]
  uiEv        \* the last step: [kind, on (the screen it happened on)]

screenVars == <<ui, uiEv>>

vars ==
  <<pooledVars, pingVars, metricsVars, probeVars, inputVars, renderVars, refreshVars,
    startVars, backoffVars, screenVars>>

----------------------------------------------------------------------------
(* Bounds of the model *)

\* largest items.length explored for pooled()
MaxItems == 4
\* largest limit explored for pooled()
MaxLimit == 4
\* how many signals (response, error, timer) one ping() is sent
MaxSignals == 3
\* history capacity of pingAllOnce; the source sets 100 (src/src/lib/ping.ts:9),
\* scaled down so that evictions happen within the explored runs
MAX_PINGS == 2
\* largest maxPings explored for applyModelPingResult
MaxCap == 3
\* how many outcomes are appended to the entity of SpecMetrics
MaxAppends == 5
\* how many rounds (pingAllOnce calls) are started after the initial state in SpecProbe
MaxRounds == 2
\* how many pingAllOnce calls may be in flight at once in SpecProbe
MaxCalls == 2
\* how many times the ping epoch is bumped in SpecProbe
MaxEpoch == 1
\* how many characters stdin delivers in all in SpecInput
MaxInput == 4
\* how long (ms) stdin may stay silent in SpecInput
MaxIdle == 60
\* the time (ms) at which SpecRender stops the clock
MaxClock == 133
\* how many rounds are started after the initial state in SpecRefresh, by the
\* loop timer or by the restartLoop that follows a refresh
MaxHostRounds == 1

\* how many rounds pingAllOnce starts in SpecBackoff: the 9th failure in a row,
\* the first whose power of two exceeds the cap, is committed in round 66
MaxBackoffRounds == 66

\* how many probes of one entity are in flight at once in SpecBackoff (rounds
\* started by restartLoop overlap the probes of the round before)
MaxFlight == 2
\* the screens: rows of the terminal above MIN_ROWS, entities in a catalog,
\* overlapping refreshModels calls, pending returns to the main screen,
\* characters of the search query
MaxExtraRows == 1
MaxRows == 4
MaxFetching == 1
MaxExportTimers == 1
MaxQuery == 1

Min(a, b) == IF a <= b THEN a ELSE b
Max(a, b) == IF a >= b THEN a ELSE b

----------------------------------------------------------------------------
(* pooled : src/src/lib/ping.ts 45-65 *)

FnOutcomes == {"ok", "rej"}

PooledIdle ==
  /\ pPc = "idle" /\ pLen = 0 /\ pLimit = 0 /\ pI = 0
  /\ pActive = {} /\ pWorkers = 0
  /\ pCalls = << >> /\ pResults = << >> /\ pEach = << >>

\* plausible bug: one next() chain per item, the limit ignored
WorkerCountPerItem(limit, n) == n

\* Array.from({ length: Math.min(limit, items.length) }, () => next())
WorkerCount(limit, n) == Max(0, Min(limit, n))

\* the synchronous part of pooled(): every worker runs next() up to its first
\* await, i.e. claims idx = i++ and invokes fn(items[idx]) when idx < length
PooledStart(n, limit) ==
  /\ pPc = "idle"
  /\ LET w == WorkerCount(limit, n)
         started == 1..Min(w, n)
     IN /\ pPc' = IF started = {} THEN "done" ELSE "running"
        /\ pLen' = n
        /\ pLimit' = limit
        /\ pI' = w
        /\ pActive' = started
        /\ pWorkers' = Cardinality(started)
        /\ pCalls' = [k \in 1..n |-> IF k \in started THEN 1 ELSE 0]
        /\ pResults' = [k \in 1..n |-> "none"]
        /\ pEach' = << >>

\* plausible bug: fixed partitioning, a worker returns after its own item
FnSettleNoClaim(idx, r) ==
  /\ pPc = "running"
  /\ idx \in pActive
  /\ pResults' = [pResults EXCEPT ![idx] = r]
  /\ pEach' = Append(pEach, <<idx, r>>)
  /\ pActive' = pActive \ {idx}
  /\ pWorkers' = pWorkers - 1
  /\ pPc' = IF pWorkers = 1 THEN "done" ELSE "running"
  /\ UNCHANGED <<pLen, pLimit, pI, pCalls>>

\* plausible bug: no .catch on fn(...), a rejection ends the worker's chain
\* with nothing stored and no callback
FnSettleRejectStops(idx, r) ==
  /\ pPc = "running"
  /\ idx \in pActive
  /\ pResults' = IF r = "rej" THEN pResults ELSE [pResults EXCEPT ![idx] = r]
  /\ pEach' = IF r = "rej" THEN pEach ELSE Append(pEach, <<idx, r>>)
  /\ pI' = IF r = "rej" THEN pI ELSE pI + 1
  /\ IF r # "rej" /\ pI < pLen
       THEN /\ pActive' = (pActive \ {idx}) \cup {pI + 1}
            /\ pCalls' = [pCalls EXCEPT ![pI + 1] = @ + 1]
            /\ pWorkers' = pWorkers
            /\ pPc' = pPc
       ELSE /\ pActive' = pActive \ {idx}
            /\ pCalls' = pCalls
            /\ pWorkers' = pWorkers - 1
            /\ pPc' = IF pWorkers = 1 THEN "done" ELSE "running"
  /\ UNCHANGED <<pLen, pLimit>>

\* fn(items[idx]) settles with r; the awaiting next() resumes: stores the result
\* (a rejection is caught and becomes the result), fires onEach, calls next(),
\* which claims i++ and either starts that item or returns. When the last
\* worker returns Promise.allSettled resolves and pooled returns.
FnSettle(idx, r) ==
  /\ pPc = "running"
  /\ idx \in pActive
  /\ pResults' = [pResults EXCEPT ![idx] = r]
  /\ pEach' = Append(pEach, <<idx, r>>)
  /\ pI' = pI + 1
  /\ LET nxt == pI + 1    \* items are 1-based here, i is 0-based in the code
     IN IF pI < pLen
          THEN /\ pActive' = (pActive \ {idx}) \cup {nxt}
               /\ pCalls' = [pCalls EXCEPT ![nxt] = @ + 1]
               /\ pWorkers' = pWorkers
               /\ pPc' = pPc
          ELSE /\ pActive' = pActive \ {idx}
               /\ pCalls' = pCalls
               /\ pWorkers' = pWorkers - 1
               /\ pPc' = IF pWorkers = 1 THEN "done" ELSE "running"
  /\ UNCHANGED <<pLen, pLimit>>

PooledCall == \E n \in 0..MaxItems, limit \in 1..MaxLimit : PooledStart(n, limit)
PooledSettle == \E idx \in 1..MaxItems, r \in FnOutcomes : FnSettle(idx, r)

----------------------------------------------------------------------------
(* ping : src/src/lib/ping.ts 77-145 *)

TIMEOUT_MS == 6000
INITIAL_TIMEOUT_MS == 2500

\* HTTP statuses a response may carry (String(res.statusCode))
Statuses == {"200", "401", "404", "429", "500", "503"}
\* err.code || err.message of a request error
ErrTags == {"ECONNREFUSED", "ECONNRESET"}
\* options.timeoutMs: 0 stands for absent / not finite / not positive
RequestedTimeouts == {0, INITIAL_TIMEOUT_MS, TIMEOUT_MS}

NoOutcome == [code |-> "none", detail |-> ""]

PingIdle ==
  /\ kPc = "idle" /\ kTimeoutMs = 0 /\ kSettled = FALSE /\ kTimer = "none"
  /\ kOutcome = NoOutcome /\ kResolves = 0 /\ kDestroyed = FALSE
  /\ kSignals = << >>

\* Number.isFinite(requestedTimeout) && requestedTimeout > 0
\*   ? Math.round(requestedTimeout) : TIMEOUT_MS
EffectiveTimeout(requested) == IF requested > 0 THEN requested ELSE TIMEOUT_MS

\* ping(): arms the timer, creates the request, writes the body
PingCall(requested) ==
  /\ kPc = "idle"
  /\ kPc' = "inflight"
  /\ kTimeoutMs' = EffectiveTimeout(requested)
  /\ kTimer' = "armed"
  /\ UNCHANGED <<kSettled, kOutcome, kResolves, kDestroyed, kSignals>>

\* plausible bug: the `if (settled) return` guard is missing
settleUnguarded(code, detail) ==
  /\ kSettled' = TRUE
  /\ kTimer' = IF kTimer = "armed" THEN "cleared" ELSE kTimer
  /\ kOutcome' = [code |-> code, detail |-> detail]
  /\ kResolves' = kResolves + 1

\* function settle(code, detail)
settle(code, detail) ==
  IF kSettled
    THEN UNCHANGED <<kSettled, kTimer, kOutcome, kResolves>>
    ELSE /\ kSettled' = TRUE
         /\ kTimer' = IF kTimer = "armed" THEN "cleared" ELSE kTimer
         /\ kOutcome' = [code |-> code, detail |-> detail]
         /\ kResolves' = kResolves + 1

Delivered(sig) ==
  /\ kPc = "inflight"
  /\ Len(kSignals) < MaxSignals
  /\ kSignals' = Append(kSignals, sig)

\* the response callback: settle(String(res.statusCode)); res.resume()
OnResponse(status) ==
  /\ Delivered([kind |-> "response", code |-> status, detail |-> ""])
  /\ settle(status, "")
  /\ UNCHANGED <<kPc, kTimeoutMs, kDestroyed>>

\* req.on("error", err => settle("ERR", err.code || err.message))
OnError(tag) ==
  /\ Delivered([kind |-> "error", code |-> "ERR", detail |-> tag])
  /\ settle("ERR", tag)
  /\ UNCHANGED <<kPc, kTimeoutMs, kDestroyed>>

\* plausible bug: the timer settles but leaves the request open
OnTimerNoDestroy ==
  /\ kTimer = "armed"
  /\ Delivered([kind |-> "timer", code |-> "000", detail |-> ""])
  /\ settle("000", "")
  /\ UNCHANGED <<kPc, kTimeoutMs, kDestroyed>>

\* setTimeout(() => { settle("000"); req.destroy(); }, timeoutMs): the callback
\* runs only while the timer is armed (every settle clears it)
OnTimer ==
  /\ kTimer = "armed"
  /\ Delivered([kind |-> "timer", code |-> "000", detail |-> ""])
  /\ settle("000", "")
  /\ kDestroyed' = TRUE
  /\ UNCHANGED <<kPc, kTimeoutMs>>

PingStart == \E requested \in RequestedTimeouts : PingCall(requested)
PingResponse == \E status \in Statuses : OnResponse(status)
PingError == \E tag \in ErrTags : OnError(tag)
PingTimer == OnTimer

----------------------------------------------------------------------------
(* Rolling metrics cache : src/unnamed/part_011 (src/lib/utils.ts) 28-190 *)

METRICS_CACHE_VERSION == 1

\* _metrics absent (undefined)
NoMetrics == [version |-> 0, count |-> 0, okCount |-> 0, sumOkMs |-> 0]

\* function emptyMetrics()
emptyMetrics == [version |-> METRICS_CACHE_VERSION, count |-> 0, okCount |-> 0, sumOkMs |-> 0]

\* function isOkPing(ping): code === "200" && isFiniteMs(ms)
isOkPing(ping) == ping.code = "200" /\ ping.ms \in Int

\* function recomputeMetricsFromPings(pings)
RECURSIVE recomputeFrom(_, _, _)
recomputeFrom(pings, k, acc) ==
  IF k > Len(pings) THEN acc
  ELSE recomputeFrom(pings, k + 1,
         [acc EXCEPT !.count = @ + 1,
                     !.okCount = IF isOkPing(pings[k]) THEN @ + 1 ELSE @,
                     !.sumOkMs = IF isOkPing(pings[k]) THEN @ + pings[k].ms ELSE @])

recomputeMetricsFromPings(pings) == recomputeFrom(pings, 1, emptyMetrics)

\* function hasValidMetrics(model)
hasValidMetrics(model) ==
  LET m == model.metrics
  IN /\ m.version = METRICS_CACHE_VERSION
     /\ m.count >= 0 /\ m.okCount >= 0 /\ m.okCount <= m.count

\* function ensureMetrics(model): the model after the call (the returned
\* snapshot is its metrics field; null when the cache is disabled)
ensureMetrics(model, enabled) ==
  IF ~enabled THEN model
  ELSE IF ~hasValidMetrics(model)
    THEN [model EXCEPT !.metrics = recomputeMetricsFromPings(model.pings)]
    ELSE model

\* function rebuildModelMetrics(model)
rebuildModelMetrics(model, enabled) ==
  IF ~enabled THEN [model EXCEPT !.metrics = NoMetrics]
  ELSE [model EXCEPT !.metrics = recomputeMetricsFromPings(model.pings)]

\* a latency average as the fraction sum / n; Infinity is the fraction with n = 0
Infinity == [sum |-> 0, n |-> 0]

RECURSIVE sumOk200(_)
sumOk200(pings) ==
  IF pings = << >> THEN Infinity
  ELSE LET rest == sumOk200(Tail(pings))
       IN IF Head(pings).code = "200"
            THEN [sum |-> rest.sum + Head(pings).ms, n |-> rest.n + 1]
            ELSE rest

\* Math.round((ok / total) * 100): halves round up
roundPercent(ok, total) == (200 * ok + total) \div (2 * total)

\* function getAvg(model): the returned value (ensureMetrics may store a
\* snapshot on the model as a side effect, see ReadMetrics)
getAvg(model, enabled) ==
  LET metrics == ensureMetrics(model, enabled).metrics
  IN IF enabled
       THEN IF metrics.okCount = 0 THEN Infinity
            ELSE [sum |-> metrics.sumOkMs, n |-> metrics.okCount]
       ELSE sumOk200(model.pings)

\* function getUptime(model)
getUptime(model, enabled) ==
  LET metrics == ensureMetrics(model, enabled).metrics
  IN IF enabled
       THEN IF metrics.count = 0 THEN 0 ELSE roundPercent(metrics.okCount, metrics.count)
       ELSE IF Len(model.pings) = 0 THEN 0
            ELSE roundPercent(sumOk200(model.pings).n, Len(model.pings))

\* plausible bug: the evicted entry is not taken out of the snapshot
evictOldestKeepSnapshot(model, enabled) ==
  [model EXCEPT !.pings = Tail(@)]

\* one pass of the body of `while (model.pings.length > maxPings)`
evictOldest(model, enabled) ==
  LET removed == Head(model.pings)
      m == model.metrics
  IN [model EXCEPT
        !.pings = Tail(@),
        !.metrics =
          IF ~enabled THEN @
          ELSE [m EXCEPT !.count = Max(0, m.count - 1),
                         !.okCount = IF isOkPing(removed) THEN Max(0, m.okCount - 1) ELSE @,
                         !.sumOkMs = IF isOkPing(removed) THEN @ - removed.ms ELSE @]]

RECURSIVE evictWhileOver(_, _, _)
evictWhileOver(model, maxPings, enabled) ==
  IF Len(model.pings) > maxPings
    THEN evictWhileOver(evictOldest(model, enabled), maxPings, enabled)
    ELSE model

\* function applyModelPingResult(model, pingResult, maxPings)
applyModelPingResult(model, pingResult, maxPings, enabled) ==
  LET m0 == ensureMetrics(model, enabled)
      m == m0.metrics
      m1 == [m0 EXCEPT
               !.pings = Append(@, pingResult),
               !.metrics =
                 IF ~enabled THEN @
                 ELSE [m EXCEPT !.count = @ + 1,
                                !.okCount = IF isOkPing(pingResult) THEN @ + 1 ELSE @,
                                !.sumOkMs = IF isOkPing(pingResult) THEN @ + pingResult.ms ELSE @]]
  IN evictWhileOver(m1, maxPings, enabled)

\* plausible bug: the bound is checked before the push, so the ring holds one too many
pushPingCheckFirst(pings, result) ==
  IF Len(pings) > MAX_PINGS THEN Append(Tail(pings), result) ELSE Append(pings, result)

\* pingAllOnce.runPing, src/src/lib/ping.ts 186-187:
\*   m.pings.push(result); if (m.pings.length > MAX_PINGS) m.pings.shift();
pushPing(pings, result) ==
  LET pushed == Append(pings, result)
  IN IF Len(pushed) > MAX_PINGS THEN Tail(pushed) ELSE pushed

\* outcomes appended in SpecMetrics
MetricCodes == {"200", "500"}
Latencies == {1, 2}
MetricResults == [code : MetricCodes, ms : Latencies]

\* no assertModelMetricsInvariant call was the last step
NoCheck == [ok |-> TRUE, reason |-> "none"]

\* plausible bug: the latency sum is not compared
assertModelMetricsInvariantNoSum(model, enabled) ==
  LET after == ensureMetrics(model, enabled)
      metrics == after.metrics
      oracle == recomputeMetricsFromPings(model.pings)
  IN IF ~enabled THEN [ok |-> TRUE, reason |-> "", model |-> model]
     ELSE IF metrics.count # oracle.count
       THEN [ok |-> FALSE, reason |-> "count mismatch", model |-> after]
     ELSE IF metrics.okCount # oracle.okCount
       THEN [ok |-> FALSE, reason |-> "okCount mismatch", model |-> after]
     ELSE [ok |-> TRUE, reason |-> "", model |-> after]

\* function assertModelMetricsInvariant(model): what it returns ({ ok: true }
\* has reason "") and the model after the call; `if (!metrics)` cannot be taken
\* once the cache is enabled, ensureMetrics returns the snapshot then
assertModelMetricsInvariant(model, enabled) ==
  LET after == ensureMetrics(model, enabled)
      metrics == after.metrics
      oracle == recomputeMetricsFromPings(model.pings)
  IN IF ~enabled THEN [ok |-> TRUE, reason |-> "", model |-> model]
     ELSE IF metrics.count # oracle.count
       THEN [ok |-> FALSE, reason |-> "count mismatch", model |-> after]
     ELSE IF metrics.okCount # oracle.okCount
       THEN [ok |-> FALSE, reason |-> "okCount mismatch", model |-> after]
     ELSE IF metrics.sumOkMs # oracle.sumOkMs
       THEN [ok |-> FALSE, reason |-> "sumOkMs mismatch", model |-> after]
     ELSE [ok |-> TRUE, reason |-> "", model |-> after]

MetricsIdle ==
  /\ aVia = "apply" /\ aEnabled = TRUE /\ aMaxPings = 1
  /\ aModel = [pings |-> << >>, metrics |-> NoMetrics]
  /\ aLog = << >>
  /\ aCheck = NoCheck

\* the capacity in force for the entity of SpecMetrics
aCap == IF aVia = "apply" THEN aMaxPings ELSE MAX_PINGS

\* applyModelPingResult(model, r, maxPings)
ApplyResult(r) ==
  /\ aVia = "apply"
  /\ Len(aLog) < MaxAppends
  /\ aModel' = applyModelPingResult(aModel, r, aMaxPings, aEnabled)
  /\ aLog' = Append(aLog, r)
  /\ aCheck' = NoCheck
  /\ UNCHANGED <<aVia, aEnabled, aMaxPings>>

\* the history update of one runPing completion
PushResult(r) ==
  /\ aVia = "runPing"
  /\ Len(aLog) < MaxAppends
  /\ aModel' = [aModel EXCEPT !.pings = pushPing(@, r)]
  /\ aLog' = Append(aLog, r)
  /\ aCheck' = NoCheck
  /\ UNCHANGED <<aVia, aEnabled, aMaxPings>>

\* getAvg / getUptime / getVerdict: each calls ensureMetrics(model) first
ReadMetrics ==
  /\ aModel' = ensureMetrics(aModel, aEnabled)
  /\ aModel' # aModel
  /\ aCheck' = NoCheck
  /\ UNCHANGED <<aVia, aEnabled, aMaxPings, aLog>>

\* a call of assertModelMetricsInvariant(model) by a diagnostic or a test
CheckInvariant ==
  LET r == assertModelMetricsInvariant(aModel, aEnabled)
  IN /\ aModel' = r.model
     /\ aCheck' = [ok |-> r.ok, reason |-> r.reason]
     /\ UNCHANGED <<aVia, aEnabled, aMaxPings, aLog>>

MetricsApply == \E r \in MetricResults : ApplyResult(r)
MetricsPush == \E r \in MetricResults : PushResult(r)

----------------------------------------------------------------------------
(* pingAllOnce, startPingLoop, stopPingLoop : src/src/lib/ping.ts 152-259 *)

PING_CONCURRENCY == 20
INITIAL_PING_CONCURRENCY == 64
BACKOFF_THRESHOLD == 3

\* the catalog: the entity list in list order, with its static metadata
ModelList == <<"m1", "m2", "mx">>
Entities == {"m1", "m2", "mx"}
providerKey == [e \in Entities |-> CASE e = "m1" -> "nvidia"
                                     [] e = "m2" -> "openrouter"
                                     [] OTHER -> "retired"]
tier == [e \in Entities |-> CASE e = "m1" -> "A" [] e = "m2" -> "S+" [] OTHER -> "?"]

\* PROVIDERS_META : src/src/lib/config.ts 17-36
KnownProviders == {"nvidia", "openrouter"}

\* TIER_ORDER[t] ?? 99 : src/unnamed/part_011 17-26
TierRank(t) ==
  CASE t = "S+" -> 0 [] t = "S" -> 1 [] t = "A+" -> 2 [] t = "A" -> 3
    [] t = "A-" -> 4 [] t = "B+" -> 5 [] t = "B" -> 6 [] t = "C" -> 7 [] OTHER -> 99

\* STATUS_MAP[code] || "down"
StatusOf(code) ==
  CASE code = "200" -> "up" [] code = "401" -> "noauth" [] code = "404" -> "notfound"
    [] code = "429" -> "ratelimit" [] code = "000" -> "timeout"
    [] code = "503" -> "unavailable" [] OTHER -> "down"

\* outcomes ping() resolves with in SpecProbe: the server of m1 answers 200 or
\* 401 or not at all, that of m2 answers 200 or 500 or refuses the connection
ProbeCodes == [e \in Entities |-> IF e = "m1" THEN {"200", "401", "000"}
                                               ELSE {"200", "500", "ERR"}]
ProbeResults(e) == [code : ProbeCodes[e], ms : {1}]

\* a catalog entity: pings: [], status: "pending", httpCode: null
FreshModel ==
  [pings |-> << >>, status |-> "pending", httpCode |-> "null",
   fails |-> 0, skipUntil |-> 0, metrics |-> NoMetrics]

RECURSIVE Pow2(_)
Pow2(n) == IF n <= 0 THEN 1 ELSE 2 * Pow2(n - 1)

\* Math.min(32, 2 ** (fails - BACKOFF_THRESHOLD))
BackoffDelay(fails) == Min(32, Pow2(fails - BACKOFF_THRESHOLD))

\* plausible bug: only 200 counts as reachable, and a failure restarts the count
failsAfterOnly200(m, code) == IF code = "200" THEN 0 ELSE IF code = "401" THEN 1 ELSE m.fails + 1

\* src/src/lib/ping.ts 193-196: the consecutive-failure counter after a commit
failsAfter(m, code) == IF code = "200" \/ code = "401" THEN 0 ELSE m.fails + 1

\* plausible bug: the status is derived before the new code is stored
runPingCommitStaleStatus(m, result, round) ==
  LET fails == failsAfter(m, result.code)
  IN [m EXCEPT
        !.pings = pushPing(@, result),
        !.httpCode = result.code,
        !.status = StatusOf(m.httpCode),
        !.fails = fails,
        !.skipUntil = IF fails >= BACKOFF_THRESHOLD THEN round + BackoffDelay(fails) ELSE @]

\* runPing after `await ping(...)`, src/src/lib/ping.ts 186-204: the entity
\* after the result is committed; round is _roundCounter at that moment
runPingCommit(m, result, round) ==
  LET fails == failsAfter(m, result.code)
  IN [m EXCEPT
        !.pings = pushPing(@, result),
        !.httpCode = result.code,
        !.status = StatusOf(result.code),
        !.fails = fails,
        !.skipUntil = IF fails >= BACKOFF_THRESHOLD THEN round + BackoffDelay(fails) ELSE @]

\* plausible bug: the filter looks at the resume round only, not at the counter
isEligibleSkipOnly(e, round) ==
  /\ providerKey[e] \in KnownProviders
  /\ ~(round < models[e].skipUntil)

\* plausible bug: the resume round is compared one round late
isEligibleLateSkip(e, round) ==
  /\ providerKey[e] \in KnownProviders
  /\ ~(models[e].fails >= BACKOFF_THRESHOLD /\ round + 1 < models[e].skipUntil)

\* the filter of pingAllOnce, src/src/lib/ping.ts 159-167; round is the
\* already incremented _roundCounter
isEligible(e, round) ==
  /\ providerKey[e] \in KnownProviders
  /\ ~(models[e].fails >= BACKOFF_THRESHOLD /\ round < models[e].skipUntil)

\* e placed behind every element whose rank is not larger
RECURSIVE insertByTier(_, _)
insertByTier(sorted, e) ==
  IF sorted = << >> THEN <<e>>
  ELSE IF TierRank(tier[e]) < TierRank(tier[Head(sorted)])
    THEN <<e>> \o sorted
    ELSE <<Head(sorted)>> \o insertByTier(Tail(sorted), e)

\* plausible bug: the list is probed in catalog order
sortByTierUnsorted(list) == list

\* toPing.sort((a, b) => rank(a) - rank(b)): stable
RECURSIVE sortByTier(_)
sortByTier(list) ==
  IF list = << >> THEN << >>
  ELSE LET n == Len(list)
       IN insertByTier(sortByTier(SubSeq(list, 1, n - 1)), list[n])

\* plausible bug: entities with a single ping fall in neither pass
isSteadyStateOffByOne(e) == Len(models[e].pings) > 1

\* src/src/lib/ping.ts 177-179
isSteadyState(e) == Len(models[e].pings) > 0

\* src/src/lib/ping.ts 174-176
isPendingFirstPass(e) == Len(models[e].pings) = 0

INITIAL_PASS == "first"
STEADY_PASS == "steady"

\* concurrency and timeout of the two pooled() calls, src/src/lib/ping.ts 207-225
PassLimit(phase) == IF phase = INITIAL_PASS THEN INITIAL_PING_CONCURRENCY ELSE PING_CONCURRENCY

\* plausible bug: the two timeouts are interchanged
PassTimeoutSwapped(phase) == IF phase = INITIAL_PASS THEN TIMEOUT_MS ELSE INITIAL_TIMEOUT_MS

PassTimeout(phase) == IF phase = INITIAL_PASS THEN INITIAL_TIMEOUT_MS ELSE TIMEOUT_MS

NoEvent ==
  [kind |-> "none", ent |-> "-", code |-> "-", seq |-> 0, epoch |-> 0,
   loop |-> 0, each |-> FALSE, update |-> FALSE, issued |-> << >>]
Event(kind) == [NoEvent EXCEPT !.kind = kind]

NoCommits == [e \in Entities |-> 0]
NoRef == [id |-> 0, running |-> FALSE, timer |-> "none"]

ProbeIdle ==
  /\ roundCounter = 0
  /\ round0 = 0
  /\ models = [e \in Entities |-> FreshModel]
  /\ calls = {}
  /\ pingRef = NoRef
  /\ pingEpoch = 0
  /\ dispatchSeq = [e \in Entities |-> 0]
  /\ appendSeq = [e \in Entities |-> 0]
  /\ finished = [round |-> 0, eligible |-> {}, committed |-> NoCommits]
  /\ stoppedLoops = {}
  /\ ev = NoEvent

\* the rounds it takes a failing entity to reach the backoff threshold
WarmRounds == BACKOFF_THRESHOLD

\* the state after WarmRounds rounds of one loop in which m1 answered 200 and
\* m2 refused the connection every time: the counter of m2 is at the
\* threshold, the interval timer of the loop is pending
ProbeWarm ==
  LET ok == [code |-> "200", ms |-> 1]
      refused == [code |-> "ERR", ms |-> 1]
      kept == Min(MAX_PINGS, WarmRounds)
  IN /\ roundCounter = WarmRounds
     /\ round0 = WarmRounds
     /\ models =
          [e \in Entities |->
             CASE e = "m1" ->
                    [FreshModel EXCEPT !.pings = [k \in 1..kept |-> ok],
                                       !.status = "up", !.httpCode = "200"]
               [] e = "m2" ->
                    [FreshModel EXCEPT !.pings = [k \in 1..kept |-> refused],
                                       !.status = "down", !.httpCode = "ERR",
                                       !.fails = WarmRounds,
                                       !.skipUntil = WarmRounds + BackoffDelay(WarmRounds)]
               [] OTHER -> FreshModel]
     /\ calls = {}
     /\ pingRef = [id |-> 1, running |-> TRUE, timer |-> "pending"]
     /\ pingEpoch = 0
     /\ dispatchSeq = [e \in Entities |-> IF e = "mx" THEN 0 ELSE WarmRounds]
     /\ appendSeq = [e \in Entities |-> IF e = "mx" THEN 0 ELSE WarmRounds]
     /\ finished = [round |-> WarmRounds, eligible |-> {"m1", "m2"},
                    committed |-> [e \in Entities |-> IF e = "mx" THEN 0 ELSE 1]]
     /\ stoppedLoops = {}
     /\ ev = [kind |-> "settle", ent |-> "m2", code |-> "ERR", seq |-> WarmRounds,
              epoch |-> 0, loop |-> 1, each |-> TRUE, update |-> TRUE, issued |-> << >>]

\* the probes pooled() starts synchronously for the first w items of a pass:
\* runPing(m, timeoutMs) up to `await ping(...)`
Issued(items, w, phase) ==
  {[ent |-> items[k], timeoutMs |-> PassTimeout(phase),
    seq |-> dispatchSeq[items[k]] + 1, epoch |-> pingEpoch] : k \in 1..w}

SeqAfterIssue(items, w) ==
  [e \in Entities |->
     IF \E k \in 1..w : items[k] = e THEN dispatchSeq[e] + 1 ELSE dispatchSeq[e]]

\* plausible bug: the `if (ref.running)` test before setTimeout is missing
AfterRoundIgnoresRunning(ref, loop) ==
  IF loop = ref.id THEN [ref EXCEPT !.timer = "pending"] ELSE ref

\* tick() after `await pingAllOnce(...)`: onUpdate?.();
\* if (ref.running) ref.timer = setTimeout(tick, intervalMs)
AfterRound(ref, loop) ==
  IF loop = ref.id /\ ref.running THEN [ref EXCEPT !.timer = "pending"] ELSE ref

\* plausible bug: the next tick is scheduled before the round is awaited
AwaitRoundArmed(ref) == [ref EXCEPT !.timer = "pending"]

\* tick() suspended at `await pingAllOnce(...)`: nothing is scheduled
AwaitRound(ref) == ref

\* pingAllOnce up to its first suspension, called from tick() of loop ref,
\* src/src/lib/ping.ts 157-215: count the round, filter, sort, partition and
\* start the first non-empty pass (an empty pooled() returns within the same
\* macrotask)
StartCall(ref) ==
  LET round == roundCounter + 1
      eligibleNow(e) == isEligible(e, round)
      toPing == sortByTier(SelectSeq(ModelList, eligibleNow))
      pendingFirstPass == SelectSeq(toPing, isPendingFirstPass)
      steadyState == SelectSeq(toPing, isSteadyState)
      phase == IF pendingFirstPass # << >> THEN INITIAL_PASS ELSE STEADY_PASS
      items == IF phase = INITIAL_PASS THEN pendingFirstPass ELSE steadyState
      w == WorkerCount(PassLimit(phase), Len(items))
      eligible == {toPing[k] : k \in 1..Len(toPing)}
  IN /\ roundCounter' = round
     /\ ev' = [Event("start") EXCEPT !.loop = ref.id, !.update = (items = << >>),
                                     !.issued = SubSeq(items, 1, w)]
     /\ UNCHANGED <<round0, models, pingEpoch, appendSeq>>
     /\ IF items = << >>
          THEN /\ calls' = calls
               /\ finished' = [round |-> round, eligible |-> {}, committed |-> NoCommits]
               /\ pingRef' = AfterRound(ref, ref.id)
               /\ dispatchSeq' = dispatchSeq
          ELSE /\ calls' = calls \cup
                    {[round |-> round, loop |-> ref.id, phase |-> phase,
                      queue |-> SubSeq(items, w + 1, Len(items)),
                      steady |-> IF phase = INITIAL_PASS THEN steadyState ELSE << >>,
                      probes |-> Issued(items, w, phase),
                      eligible |-> eligible, committed |-> NoCommits]}
               /\ finished' = finished
               /\ pingRef' = AwaitRound(ref)
               /\ dispatchSeq' = SeqAfterIssue(items, w)

\* plausible bug: the timer is cleared but the loop is not marked as stopped
stopPingLoopOnlyTimer(ref) == [ref EXCEPT !.timer = "none"]

\* stopPingLoop(ref): ref.running = false; clearTimeout(ref.timer)
stopPingLoop(ref) == [ref EXCEPT !.running = FALSE, !.timer = "none"]

\* restartLoop(), src/unnamed/part_012 1296-1309 (main() at start-up, the
\* interval keys W / X): stopPingLoop(pingRef); pingRef = startPingLoop(...),
\* whose first tick() runs at once
RestartLoop ==
  /\ roundCounter < round0 + MaxRounds
  /\ Cardinality(calls) < MaxCalls
  /\ stoppedLoops' = IF pingRef.id = 0 THEN stoppedLoops ELSE stoppedLoops \cup {pingRef.id}
  /\ StartCall([id |-> pingRef.id + 1, running |-> TRUE, timer |-> "none"])

\* the interval timer of the running loop fires: tick()
LoopTimerTick ==
  /\ pingRef.running /\ pingRef.timer = "pending"
  /\ roundCounter < round0 + MaxRounds
  /\ Cardinality(calls) < MaxCalls
  /\ UNCHANGED stoppedLoops
  /\ StartCall([pingRef EXCEPT !.timer = "none"])

\* the host stops the loop (key P / A of the main screen)
StopLoop ==
  /\ pingRef.running
  /\ pingRef' = stopPingLoop(pingRef)
  /\ stoppedLoops' = stoppedLoops \cup {pingRef.id}
  /\ ev' = [Event("stop") EXCEPT !.loop = pingRef.id]
  /\ UNCHANGED <<roundCounter, round0, models, calls, pingEpoch, dispatchSeq, appendSeq,
                  finished>>

\* probe p of call c settles with result: runPing commits it, the pooled
\* worker fires onEach and claims the next item; when the pass is drained the
\* next pass starts, and after the last pass pingAllOnce returns to tick()
ProbeSettle(c, p, result) ==
  LET e == p.ent
      committed == [c.committed EXCEPT ![e] = @ + 1]
      rest == c.probes \ {p}
      nextStarts == c.queue # << >>
      passDone == ~nextStarts /\ rest = {}
      steadyStarts == passDone /\ c.phase = INITIAL_PASS /\ c.steady # << >>
      w == WorkerCount(PassLimit(STEADY_PASS), Len(c.steady))
  IN /\ models' = [models EXCEPT ![e] = runPingCommit(@, result, roundCounter)]
     /\ appendSeq' = [appendSeq EXCEPT ![e] = p.seq]
     /\ ev' = [kind |-> "settle", ent |-> e, code |-> result.code,
               seq |-> p.seq, epoch |-> p.epoch, loop |-> c.loop,
               each |-> TRUE, update |-> (passDone /\ ~steadyStarts),
               issued |-> IF nextStarts THEN <<Head(c.queue)>>
                          ELSE IF steadyStarts THEN SubSeq(c.steady, 1, w) ELSE << >>]
     /\ UNCHANGED <<roundCounter, round0, pingEpoch, stoppedLoops>>
     /\ IF nextStarts THEN
          /\ calls' = (calls \ {c}) \cup
               {[c EXCEPT !.probes = rest \cup Issued(c.queue, 1, c.phase),
                          !.queue = Tail(@), !.committed = committed]}
          /\ dispatchSeq' = SeqAfterIssue(c.queue, 1)
          /\ UNCHANGED <<finished, pingRef>>
        ELSE IF ~passDone THEN
          /\ calls' = (calls \ {c}) \cup
               {[c EXCEPT !.probes = rest, !.committed = committed]}
          /\ UNCHANGED <<dispatchSeq, finished, pingRef>>
        ELSE IF steadyStarts THEN
          /\ calls' = (calls \ {c}) \cup
               {[c EXCEPT !.phase = STEADY_PASS,
                          !.probes = Issued(c.steady, w, STEADY_PASS),
                          !.queue = SubSeq(c.steady, w + 1, Len(c.steady)),
                          !.steady = << >>, !.committed = committed]}
          /\ dispatchSeq' = SeqAfterIssue(c.steady, w)
          /\ UNCHANGED <<finished, pingRef>>
        ELSE
          /\ calls' = calls \ {c}
          /\ finished' = [round |-> c.round, eligible |-> c.eligible,
                          committed |-> committed]
          /\ pingRef' = AfterRound(pingRef, c.loop)
          /\ UNCHANGED dispatchSeq

\* getAvg / getUptime / getVerdict of entity e while rendering or sorting
ReadMetricsOf(e) ==
  /\ models' = [models EXCEPT ![e] = ensureMetrics(@, aEnabled)]
  /\ models' # models
  /\ ev' = Event("read")
  /\ UNCHANGED <<roundCounter, round0, calls, pingRef, pingEpoch, dispatchSeq, appendSeq,
                  finished, stoppedLoops>>

\* bumpPingEpoch(): invalidates the rounds in flight
bumpPingEpoch ==
  /\ pingEpoch < MaxEpoch
  /\ pingEpoch' = pingEpoch + 1
  /\ ev' = Event("bump")
  /\ UNCHANGED <<roundCounter, round0, models, calls, pingRef, dispatchSeq, appendSeq,
                  finished, stoppedLoops>>

ProbeCompletes == \E c \in calls : \E p \in c.probes : \E r \in ProbeResults(p.ent) : ProbeSettle(c, p, r)
MetricsRead == \E e \in Entities : ReadMetricsOf(e)

----------------------------------------------------------------------------
(* the raw input dispatcher : src/unnamed/part_012 1128-1237 *)

\* setTimeout(flushEsc, 50)
ESC_GRACE_MS == 50

\* the escape byte "\x1b"; a string is a sequence of characters
ESC == "ESC"
Alphabet == {ESC, "[", "A", "5", "~"}

\* the stdin chunks of at most n characters
Chunks(n) == UNION {[1..k -> Alphabet] : k \in 1..n}

\* the amounts of time (ms) that pass between two macrotasks
TimeSteps == {20, 50}

\* s[j] >= "0" && s[j] <= "9"
isDigit(c) == c \in {"0", "1", "2", "3", "4", "5", "6", "7", "8", "9"}

\* the inner while of splitEscapeSequences: the first index at or after j
\* that holds no parameter byte (digit or semicolon)
RECURSIVE scanParams(_, _)
scanParams(s, j) ==
  IF j <= Len(s) /\ (isDigit(s[j]) \/ s[j] = ";") THEN scanParams(s, j + 1) ELSE j

\* plausible bug: the slice stops one character short, the final byte is lost
csiSliceShort(s, i, j) == SubSeq(s, i, j - 2)

\* s.slice(i, j) for the 1-based positions i .. j-1
csiSlice(s, i, j) == SubSeq(s, i, j - 1)

\* the outer while of splitEscapeSequences from position i on
RECURSIVE splitFrom(_, _)
splitFrom(s, i) ==
  IF i > Len(s) THEN << >>
  ELSE IF s[i] = ESC /\ i + 1 <= Len(s) /\ s[i + 1] = "["
    THEN LET j0 == scanParams(s, i + 2)
             j == IF j0 <= Len(s) THEN j0 + 1 ELSE j0
         IN <<csiSlice(s, i, j)>> \o splitFrom(s, j)
    ELSE <<<<s[i]>>>> \o splitFrom(s, i + 1)

splitEscapeSequences(s) == splitFrom(s, 1)

InputIdle ==
  /\ escBuf = << >>
  /\ escTimer = {}
  /\ dispatched = << >>
  /\ inLog = << >>
  /\ idle = 0

DataEvent(ch) == [kind |-> "data", chunk |-> ch]
TimerEvent == [kind |-> "timer", chunk |-> << >>]

\* the characters delivered so far
RECURSIVE InputLen(_)
InputLen(log) == IF log = << >> THEN 0 ELSE Len(Head(log).chunk) + InputLen(Tail(log))

\* the single-character branch of onData with a buffer pending, 1216-1235:
\* TRUE when the buffer extended by the character is dispatched
IsCompleteSequence(buf) ==
  /\ Len(buf) >= 3
  /\ buf[Len(buf)] # "["
  /\ ~(buf[Len(buf) - 1] = ESC /\ buf[Len(buf)] = "[")
  /\ ~(Len(buf) = 3 /\ isDigit(buf[3]))

\* onData(raw), 1195-1237
onData(ch) ==
  /\ inLog' = Append(inLog, DataEvent(ch))
  /\ idle' = 0
  /\ IF Len(ch) > 1 THEN
       /\ escBuf' = IF escTimer # {} THEN << >> ELSE escBuf
       /\ escTimer' = {}
       /\ dispatched' = dispatched \o splitEscapeSequences(ch)
     ELSE IF ch = <<ESC>> THEN
       /\ dispatched' = IF escTimer # {} THEN Append(dispatched, <<ESC>>) ELSE dispatched
       /\ escBuf' = <<ESC>>
       /\ escTimer' = {ESC_GRACE_MS}
     ELSE IF escBuf # << >> THEN
       IF IsCompleteSequence(escBuf \o ch)
         THEN /\ escBuf' = << >>
              /\ escTimer' = {}
              /\ dispatched' = Append(dispatched, escBuf \o ch)
         ELSE /\ escBuf' = escBuf \o ch
              /\ UNCHANGED <<escTimer, dispatched>>
     ELSE
       /\ dispatched' = Append(dispatched, ch)
       /\ UNCHANGED <<escBuf, escTimer>>

\* plausible bug: the flush dispatches but leaves the buffer in place
flushEscKeepsBuffer ==
  /\ escTimer = {0}
  /\ dispatched' = Append(dispatched, escBuf)
  /\ escBuf' = escBuf
  /\ escTimer' = {}
  /\ inLog' = Append(inLog, TimerEvent)
  /\ idle' = idle

\* flushEsc(), 1188-1193, run by the timer when it is due
flushEsc ==
  /\ escTimer = {0}
  /\ dispatched' = Append(dispatched, escBuf)
  /\ escBuf' = << >>
  /\ escTimer' = {}
  /\ inLog' = Append(inLog, TimerEvent)
  /\ idle' = idle

\* stdin emits a chunk
StdinData == \E ch \in Chunks(MaxInput - InputLen(inLog)) : onData(ch)

\* time passes with nothing to run; a timer that is due runs before more
\* time passes
InputTimePasses ==
  \E d \in TimeSteps :
     LET step == IF escTimer = {} THEN d ELSE Min(d, CHOOSE n \in escTimer : TRUE)
     IN /\ step > 0
        /\ idle + step <= MaxIdle
        /\ idle' = idle + step
        /\ escTimer' = {n - step : n \in escTimer}
        /\ UNCHANGED <<escBuf, dispatched, inLog>>

----------------------------------------------------------------------------
(* the frame throttle : src/unnamed/part_012 1132-1159 *)

RENDER_INTERVAL_MS == 33

\* the amounts of time (ms) that pass between two macrotasks
RenderSteps == {10, 33}

\* Date.now() is far beyond the interval when the program starts, so the
\* first throttledRender call renders at once
RenderIdle ==
  /\ clock = RENDER_INTERVAL_MS
  /\ lastRenderTime = 0
  /\ renderTimer = {}
  /\ timeouts = {}
  /\ lastFrame = {}
  /\ lastThrottled = {}
  /\ dirty = FALSE
  /\ rEv = [kind |-> "none", wrote |-> FALSE]

\* render() writes a frame of the state as it is now
WriteFrame(via) ==
  /\ lastFrame' = {[at |-> clock, via |-> via]}
  /\ dirty' = FALSE

\* the handle setTimeout returns
NewTimeoutId == CHOOSE n \in 1..(Cardinality(timeouts) + 1) : \A t \in timeouts : t.id # n

\* plausible bug: the operands of the remaining-time subtraction are swapped
trailingDelayElapsed(now, last) == now - last

\* RENDER_INTERVAL_MS - (now - _lastRenderTime), 1156
trailingDelay(now, last) == RENDER_INTERVAL_MS - (now - last)

\* throttledRender(), 1138-1159, called by a key handler that changed the view
\* state (872, 934)
throttledRender ==
  LET now == clock
  IN IF now - lastRenderTime >= RENDER_INTERVAL_MS THEN
       /\ timeouts' = {t \in timeouts : t.id \notin renderTimer}
       /\ renderTimer' = {}
       /\ lastRenderTime' = now
       /\ WriteFrame("throttled")
       /\ lastThrottled' = {now}
       /\ rEv' = [kind |-> "call", wrote |-> TRUE]
       /\ UNCHANGED clock
     ELSE IF renderTimer = {} THEN
       /\ timeouts' = timeouts \cup
            {[id |-> NewTimeoutId, due |-> now + trailingDelay(now, lastRenderTime)]}
       /\ renderTimer' = {NewTimeoutId}
       /\ dirty' = TRUE
       /\ rEv' = [kind |-> "call", wrote |-> FALSE]
       /\ UNCHANGED <<clock, lastRenderTime, lastFrame, lastThrottled>>
     ELSE
       /\ dirty' = TRUE
       /\ rEv' = [kind |-> "call", wrote |-> FALSE]
       /\ UNCHANGED <<clock, lastRenderTime, renderTimer, timeouts, lastFrame, lastThrottled>>

\* plausible bug: the callback does not reset _renderTimer
RenderTimerFiresKeepsHandle ==
  \E t \in timeouts :
     /\ clock >= t.due
     /\ timeouts' = timeouts \ {t}
     /\ renderTimer' = renderTimer
     /\ lastRenderTime' = clock
     /\ WriteFrame("throttled")
     /\ lastThrottled' = {clock}
     /\ rEv' = [kind |-> "timer", wrote |-> TRUE]
     /\ UNCHANGED clock

\* the callback of the trailing timeout, 1151-1155; a timeout runs when it is
\* due or later
RenderTimerFires ==
  \E t \in timeouts :
     /\ clock >= t.due
     /\ timeouts' = timeouts \ {t}
     /\ renderTimer' = {}
     /\ lastRenderTime' = clock
     /\ WriteFrame("throttled")
     /\ lastThrottled' = {clock}
     /\ rEv' = [kind |-> "timer", wrote |-> TRUE]
     /\ UNCHANGED clock

\* a direct render() call: the key handlers of the settings, help and target
\* screens (946-1024), onPingTick (1293), the round-complete callback (1305)
DirectRender ==
  /\ WriteFrame("direct")
  /\ rEv' = [kind |-> "direct", wrote |-> TRUE]
  /\ UNCHANGED <<clock, lastRenderTime, renderTimer, timeouts, lastThrottled>>

RenderTimePasses ==
  \E d \in RenderSteps :
     /\ clock + d <= MaxClock
     /\ clock' = clock + d
     /\ rEv' = [kind |-> "time", wrote |-> FALSE]
     /\ UNCHANGED <<lastRenderTime, renderTimer, timeouts, lastFrame, lastThrottled, dirty>>

----------------------------------------------------------------------------
(* refreshModels and the handlers around it : src/unnamed/part_012 1257-1280,
   904-908, 982-989, 1296-1309, 1611-1612 *)

\* modelKey(m) of the identities the catalog may list
CatalogOrder == <<"nvidia|a", "nvidia|b", "openrouter|c">>
CatalogKeys == {CatalogOrder[i] : i \in 1..Len(CatalogOrder)}

\* plausible bug: the resume round is not carried over
PING_STATE_KEYS_NoSkip == {"pings", "status", "httpCode", "fails"}

\* const PING_STATE_KEYS; fails = _consecutiveFails, skipUntil = _skipUntilRound
PING_STATE_KEYS == {"pings", "status", "httpCode", "fails", "skipUntil"}

\* outcomes ping() resolves with in SpecRefresh: the server of nvidia|a answers
\* 200 or not at all, that of nvidia|b answers 200, openrouter refuses the connection
HostResults(k) ==
  [code : CASE k = "nvidia|a" -> {"200", "000"} [] k = "nvidia|b" -> {"200"} [] OTHER -> {"ERR"},
   ms : {1}]

\* one entity of getAllModels(config): pings: [] is the new array numbered a
CatalogEntity(k, a) ==
  [key |-> k, pings |-> a, status |-> FreshModel.status,
   httpCode |-> FreshModel.httpCode, fails |-> FreshModel.fails,
   skipUntil |-> FreshModel.skipUntil]

RECURSIVE keysInOrder(_, _)
keysInOrder(order, keys) ==
  IF order = << >> THEN << >>
  ELSE IF Head(order) \in keys THEN <<Head(order)>> \o keysInOrder(Tail(order), keys)
  ELSE keysInOrder(Tail(order), keys)

\* the keys of the list and the object the list holds for a key
ListKeys == {hObjs[hModels[i]].key : i \in 1..Len(hModels)}
Held(k) == CHOOSE o \in {hModels[i] : i \in 1..Len(hModels)} : hObjs[o].key = k

\* { ...m, ...preserved } with preserved[k] = existing[k] for k of PING_STATE_KEYS
mergeEntity(m, existing) ==
  [f \in DOMAIN m |-> IF f \in PING_STATE_KEYS THEN existing[f] ELSE m[f]]

\* the synchronous start of pingAllOnce(models): _roundCounter++, the backoff
\* filter (every catalog identity belongs to a known provider), and the probes
\* of the round are issued
StartHostRound(objs, list, flight) ==
  /\ hRound' = hRound + 1
  /\ hFlight' = flight \cup {list[i] : i \in {j \in 1..Len(list) :
                                ~(objs[list[j]].fails >= BACKOFF_THRESHOLD
                                  /\ hRound + 1 < objs[list[j]].skipUntil)}}

NoHostEvent == [kind |-> "none", obj |-> 0, code |-> "-", before |-> {}, fresh |-> {}]

\* main() has filled the list, two rounds have completed, in which nvidia|a
\* answered 200 and openrouter|c refused the connection, and the loop has
\* issued the probes of round WarmRounds
RefreshIdle ==
  LET done == WarmRounds - 1
      kept == Min(MAX_PINGS, done)
  IN /\ hObjs = <<[CatalogEntity("nvidia|a", 1) EXCEPT !.status = "up", !.httpCode = "200"],
                  [CatalogEntity("openrouter|c", 2) EXCEPT
                     !.status = "down", !.httpCode = "ERR", !.fails = done]>>
     /\ hArrays = <<[k \in 1..kept |-> [code |-> "200", ms |-> 1]],
                    [k \in 1..kept |-> [code |-> "ERR", ms |-> 1]]>>
     /\ hModels = <<1, 2>>
     /\ hFlight = {1, 2}
     /\ hMerged = {}
     /\ hRound = WarmRounds
     /\ hLoop = TRUE
     /\ hScreen = "main"
     /\ hFetch = FALSE
     /\ hEv = NoHostEvent

\* the loop timer fires: tick() starts the next round over the list the loop
\* was started with; the previous round of the loop has returned
HostLoopTick ==
  /\ hLoop
  /\ hRound < WarmRounds + MaxHostRounds
  /\ \A i \in 1..Len(hModels) : hModels[i] \notin hFlight
  /\ StartHostRound(hObjs, hModels, hFlight)
  /\ hEv' = [NoHostEvent EXCEPT !.kind = "round"]
  /\ UNCHANGED <<hObjs, hArrays, hModels, hMerged, hLoop, hScreen, hFetch>>

\* handleMain, key P (904-908): stopPingLoop(pingRef); screen = "settings"
OpenSettings ==
  /\ hScreen = "main"
  /\ hLoop' = FALSE
  /\ hScreen' = "settings"
  /\ hEv' = [NoHostEvent EXCEPT !.kind = "settings"]
  /\ UNCHANGED <<hObjs, hArrays, hModels, hFlight, hMerged, hRound, hFetch>>

\* handleSettings, Esc or q (982-989): screen = "main"; refreshModels() runs up
\* to `await getAllModels(config)`
LeaveSettings ==
  /\ hScreen = "settings"
  /\ ~hFetch
  /\ hRound < WarmRounds + MaxHostRounds
  /\ hScreen' = "main"
  /\ hFetch' = TRUE
  /\ hEv' = [NoHostEvent EXCEPT !.kind = "leave"]
  /\ UNCHANGED <<hObjs, hArrays, hModels, hFlight, hMerged, hRound, hLoop>>

\* getAllModels resolves with the entities of `fresh`: refreshModels merges
\* (1270-1279), then the .then() callback of 985-988 runs restartLoop(), whose
\* startPingLoop issues the first round over the new list
refreshModels ==
  \E fresh \in SUBSET CatalogKeys :
     LET order == keysInOrder(CatalogOrder, fresh)
         n == Len(order)
         m(i) == CatalogEntity(order[i], Len(hArrays) + i)
         merged(i) == IF order[i] \in ListKeys
                        THEN mergeEntity(m(i), hObjs[Held(order[i])])
                        ELSE m(i)
         objs == hObjs \o [i \in 1..n |-> merged(i)]
         list == [i \in 1..n |-> Len(hObjs) + i]
     IN /\ hFetch
        /\ hFetch' = FALSE
        /\ hObjs' = objs
        /\ hArrays' = hArrays \o [i \in 1..n |-> << >>]
        /\ hModels' = list
        /\ hMerged' = {o \in hFlight : /\ hObjs[o].key \in fresh
                                       /\ \/ o \in hMerged
                                          \/ \E i \in 1..Len(hModels) : hModels[i] = o}
        /\ hLoop' = TRUE
        /\ StartHostRound(objs, list, hFlight)
        /\ hEv' = [NoHostEvent EXCEPT !.kind = "refresh", !.before = ListKeys,
                                      !.fresh = fresh]
        /\ UNCHANGED hScreen

\* a ping() resolves and the runPing that awaited it commits to the object m
\* it was called with (src/src/lib/ping.ts 181-205)
HostProbeCompletes ==
  \E o \in hFlight :
   \E result \in HostResults(hObjs[o].key) :
     LET m == [hObjs[o] EXCEPT !.pings = hArrays[@]]
         after == runPingCommit(m, result, hRound)
     IN /\ hArrays' = [hArrays EXCEPT ![hObjs[o].pings] = after.pings]
        /\ hObjs' = [hObjs EXCEPT ![o] = [after EXCEPT !.pings = hObjs[o].pings]]
        /\ hFlight' = hFlight \ {o}
        /\ hMerged' = hMerged \ {o}
        /\ hEv' = [NoHostEvent EXCEPT !.kind = "commit", !.obj = o, !.code = result.code,
                                      !.before = IF o \in hMerged THEN {hObjs[o].key} ELSE {}]
        /\ UNCHANGED <<hModels, hRound, hLoop, hScreen, hFetch>>

----------------------------------------------------------------------------
(* main and runBest : src/unnamed/part_012 1525-1614; cmpPriority and
   findBestModel : src/unnamed/part_011 256-268, 313-360 *)

MAX_ROUNDS == 4

\* the entities getAllModels returns to runBest, in list order
BestList == <<"b1", "b2", "b3">>
BestEntities == {"b1", "b2", "b3"}
bestTier == [e \in BestEntities |-> IF e = "b3" THEN "A+" ELSE "S"]
bestProvider == [e \in BestEntities |-> IF e = "b2" THEN "openrouter" ELSE "nvidia"]

\* a.localeCompare(b) on the strings that occur: their alphabetical position
localeRank(str) ==
  CASE str = "b1" -> 1 [] str = "b2" -> 2 [] str = "b3" -> 3
    [] str = "nvidia" -> 1 [] str = "openrouter" -> 2 [] OTHER -> 0

\* outcomes ping() resolves with in SpecStart
BestResults(e) ==
  IF e = "b3" THEN {[code |-> "200", ms |-> 100], [code |-> "ERR", ms |-> 100]}
  ELSE {[code |-> "200", ms |-> 100], [code |-> "200", ms |-> 2000],
        [code |-> "ERR", ms |-> 100]}

\* function cmpWithInfinity(a, b) on averages: the sign of a - b
cmpWithInfinity(a, b) ==
  IF a.n = 0 THEN (IF b.n = 0 THEN 0 ELSE 1)
  ELSE IF b.n = 0 THEN -1
  ELSE a.sum * b.n - b.sum * a.n

\* the keys of cmpPriority after the tier: cmpAvg, the uptime difference, then
\* providerKey, displayName || id and id by localeCompare
cmpAfterTier(ms, a, b) ==
  LET byAvg == cmpWithInfinity(getAvg(ms[a], TRUE), getAvg(ms[b], TRUE))
      byUptime == getUptime(ms[b], TRUE) - getUptime(ms[a], TRUE)
      byProvider == localeRank(bestProvider[a]) - localeRank(bestProvider[b])
  IN IF byAvg # 0 THEN byAvg
     ELSE IF byUptime # 0 THEN byUptime
     ELSE IF byProvider # 0 THEN byProvider
     ELSE localeRank(a) - localeRank(b)

\* function cmpPriority(a, b) on the entities a, b of the list state ms:
\* firstNonZero(...) of the key differences, the first that is not 0; the
\* metrics cache is enabled (the default of METRICS_CACHE_ENABLED)
cmpPriority(ms, a, b) ==
  LET byStatus == (IF ms[a].status = "up" THEN 0 ELSE 1) - (IF ms[b].status = "up" THEN 0 ELSE 1)
      byTier == TierRank(bestTier[a]) - TierRank(bestTier[b])
  IN IF byStatus # 0 THEN byStatus
     ELSE IF byTier # 0 THEN byTier
     ELSE cmpAfterTier(ms, a, b)

\* [...candidates].sort(cmpPriority)[0]: the first candidate that no other
\* candidate precedes (cmpPriority orders distinct entities strictly)
RECURSIVE firstByPriority(_, _, _, _)
firstByPriority(ms, candidates, k, first) ==
  IF k > Len(candidates) THEN first
  ELSE IF cmpPriority(ms, candidates[k], first) < 0
    THEN firstByPriority(ms, candidates, k + 1, candidates[k])
    ELSE firstByPriority(ms, candidates, k + 1, first)

\* function findBestModel(models): the entity returned, "null" for null
findBestModel(ms, list) ==
  LET candidates == SelectSeq(list, LAMBDA e : Len(ms[e].pings) > 0)
  IN IF candidates = << >> THEN "null"
     ELSE firstByPriority(ms, candidates, 2, candidates[1])

\* the entity states after findBestModel: every comparison calls getAvg and
\* getUptime on both entities, which store a snapshot where none is valid
afterFindBest(ms, list) ==
  LET candidates == SelectSeq(list, LAMBDA e : Len(ms[e].pings) > 0)
  IN [e \in DOMAIN ms |->
        IF Len(candidates) >= 2 /\ Len(ms[e].pings) > 0
          THEN ensureMetrics(ms[e], TRUE) ELSE ms[e]]

NoBestEvent == [kind |-> "none", found |-> "-", early |-> FALSE]

\* the process has started with its arguments and environment:
\*   best: --best given, tty: process.stdin.isTTY, keys: an API key is configured,
\*   catalog: getAllModels returns entities
StartIdle ==
  /\ bArgs = [best |-> FALSE, tty |-> TRUE, keys |-> TRUE, catalog |-> TRUE]
  /\ bPc = "start"
  /\ bExit = -1
  /\ bStderr = {}
  /\ bStdout = "-"
  /\ bRound = 0
  /\ bCounter = 0
  /\ bList = << >>
  /\ bModels = [e \in BestEntities |-> FreshModel]
  /\ bEv = NoBestEvent

\* process.stderr.write(msg); process.exit(code)
ExitWith(code, msg) ==
  /\ bPc' = "exited"
  /\ bExit' = code
  /\ bStderr' = IF msg = "" THEN bStderr ELSE bStderr \cup {msg}

\* await pingAllOnce(models, config) begins: _roundCounter++
BeginRound ==
  /\ bRound' = bRound + 1
  /\ bCounter' = bCounter + 1

\* runBest up to the first `await pingAllOnce(models, config)`
runBest ==
  /\ bPc = "start" /\ bArgs.best
  /\ bEv' = [NoBestEvent EXCEPT !.kind = "runBest"]
  /\ IF ~bArgs.keys
       THEN /\ ExitWith(1, "No API keys configured")
            /\ UNCHANGED <<bRound, bCounter, bList>>
       ELSE IF ~bArgs.catalog
         THEN /\ ExitWith(1, "No enabled models available")
              /\ UNCHANGED <<bRound, bCounter, bList>>
         ELSE /\ bPc' = "rounds"
              /\ bList' = BestList
              /\ BeginRound
              /\ UNCHANGED <<bExit, bStderr>>
  /\ UNCHANGED <<bArgs, bStdout, bModels>>

\* the entities pingAllOnce probes in the round numbered bCounter
bestEligible ==
  {e \in BestEntities :
     /\ \E i \in 1..Len(bList) : bList[i] = e
     /\ ~(bModels[e].fails >= BACKOFF_THRESHOLD /\ bCounter < bModels[e].skipUntil)}

\* the rest of the loop body of runBest once `await pingAllOnce` has resolved
\* with the entity states `pinged`, up to the next await or the exit:
\* findBestModel(models), getAvg(candidate), break or the next round
runBestAfterRound(pinged) ==
  \E checked \in {bRound - 1 >= 1} :
  \E candidate \in {findBestModel(pinged, bList)} :
  \E measured \in {checked /\ candidate # "null" /\ Len(pinged[candidate].pings) >= 2} :
  \E compared \in {IF checked THEN afterFindBest(pinged, bList) ELSE pinged} :
  \E probed \in {IF measured THEN [compared EXCEPT ![candidate] = ensureMetrics(@, TRUE)]
                  ELSE compared} :
  \E avg \in {IF measured THEN getAvg(pinged[candidate], TRUE) ELSE Infinity} :
  \E early \in {measured /\ avg.n > 0 /\ avg.sum < 500 * avg.n} :
     IF early \/ bRound >= MAX_ROUNDS
       THEN \E best \in {findBestModel(probed, bList)} :
              /\ bModels' = afterFindBest(probed, bList)
              /\ IF best = "null"
                   THEN ExitWith(1, "No models responded") /\ UNCHANGED bStdout
                   ELSE ExitWith(0, "") /\ bStdout' = best
              /\ bEv' = [kind |-> "done", found |-> best, early |-> early]
              /\ UNCHANGED <<bRound, bCounter>>
       ELSE /\ bModels' = probed
            /\ BeginRound
            /\ bEv' = [kind |-> "round", found |-> IF checked THEN candidate ELSE "-",
                       early |-> FALSE]
            /\ UNCHANGED <<bPc, bExit, bStderr, bStdout>>

\* pingAllOnce resolves: every probe of the round has committed (nothing else
\* runs in --best while the probes complete, so their order does not show);
\* then runBest continues
runBestRound ==
  /\ bPc = "rounds"
  /\ \E r1 \in BestResults("b1"), r2 \in BestResults("b2"), r3 \in BestResults("b3") :
     \E pinged \in
        {[b1 |-> IF "b1" \in bestEligible THEN runPingCommit(bModels.b1, r1, bCounter)
                 ELSE bModels.b1,
          b2 |-> IF "b2" \in bestEligible THEN runPingCommit(bModels.b2, r2, bCounter)
                 ELSE bModels.b2,
          b3 |-> IF "b3" \in bestEligible THEN runPingCommit(bModels.b3, r3, bCounter)
                 ELSE bModels.b3]} :
      /\ runBestAfterRound(pinged)
      /\ UNCHANGED <<bArgs, bList>>

\* plausible bug: the terminal is not tested before the loop is started
mainAfterWizardNoTtyTest ==
  /\ bPc' = "running"
  /\ bList' = IF bArgs.catalog THEN BestList ELSE << >>
  /\ BeginRound
  /\ UNCHANGED <<bExit, bStderr>>

\* main after the wizard: checkForUpdate, the TTY test, terminal set-up,
\* await refreshModels(), restartLoop() with its first round
mainAfterWizard ==
  IF ~bArgs.tty
    THEN /\ ExitWith(1, "frouter requires an interactive terminal")
         /\ UNCHANGED <<bRound, bCounter, bList>>
    ELSE /\ bPc' = "running"
         /\ bList' = IF bArgs.catalog THEN BestList ELSE << >>
         /\ BeginRound
         /\ UNCHANGED <<bExit, bStderr>>

\* main without --best, up to `await runFirstRunWizard(config)` when no key is
\* configured. Without a terminal the wizard's first promptMasked throws at
\* process.stdin.setRawMode(true), a method that only a TTY stream has; the
\* rejection reaches main().catch: console.error("Fatal:", err); process.exit(1)
main ==
  /\ bPc = "start" /\ ~bArgs.best
  /\ bEv' = [NoBestEvent EXCEPT !.kind = "main"]
  /\ IF ~bArgs.keys
       THEN IF bArgs.tty
              THEN bPc' = "wizard" /\ UNCHANGED <<bExit, bStderr, bRound, bCounter, bList>>
              ELSE /\ ExitWith(1, "Fatal: TypeError")
                   /\ UNCHANGED <<bRound, bCounter, bList>>
       ELSE mainAfterWizard
  /\ UNCHANGED <<bArgs, bStdout, bModels>>

\* runFirstRunWizard returns, with keys saved or with every provider skipped
wizardReturns ==
  /\ bPc = "wizard"
  /\ bEv' = [NoBestEvent EXCEPT !.kind = "wizard"]
  /\ mainAfterWizard
  /\ UNCHANGED <<bArgs, bStdout, bModels>>

\* key q on the main screen (913-915) or Ctrl+C in dispatch (1240-1242):
\* cleanup(); process.exit(0)
quitKey ==
  /\ bPc = "running"
  /\ bEv' = [NoBestEvent EXCEPT !.kind = "quit"]
  /\ ExitWith(0, "")
  /\ UNCHANGED <<bArgs, bStdout, bRound, bCounter, bList, bModels>>

----------------------------------------------------------------------------
(* Backoff of one entity over many rounds : src/src/lib/ping.ts 157-204 *)

\* outcomes ping() resolves with in SpecBackoff
BackoffResults == [code : {"200", "ERR"}, ms : {1}]

NoBackoffEvent == [kind |-> "none", code |-> "-", round |-> 0, fails |-> 0, skipUntil |-> 0]

BackoffIdle ==
  /\ oModel = FreshModel
  /\ oCounter = 0
  /\ oFlight = 0
  /\ oEv = NoBackoffEvent

\* plausible bug: the filter looks at the failure counter only
backoffEligibleCounterOnly(round) == oModel.fails < BACKOFF_THRESHOLD

\* the filter of pingAllOnce on the entity, round is the incremented counter
backoffEligible(round) ==
  ~(oModel.fails >= BACKOFF_THRESHOLD /\ round < oModel.skipUntil)

\* pingAllOnce(models, ...) up to its first suspension: _roundCounter++, the
\* filter, and runPing on the entity when it passes the filter
BackoffRoundStarts ==
  /\ oCounter < MaxBackoffRounds
  /\ backoffEligible(oCounter + 1) => oFlight < MaxFlight
  /\ oCounter' = oCounter + 1
  /\ oFlight' = IF backoffEligible(oCounter + 1) THEN oFlight + 1 ELSE oFlight
  /\ oEv' = [NoBackoffEvent EXCEPT !.kind = IF backoffEligible(oCounter + 1)
                                              THEN "probe" ELSE "skip"]
  /\ UNCHANGED oModel

\* `await ping(...)` of a runPing on the entity resolves and the result is
\* committed with the _roundCounter of that moment
BackoffCommit ==
  /\ oFlight > 0
  /\ \E result \in BackoffResults :
        /\ oModel' = runPingCommit(oModel, result, oCounter)
        /\ oEv' = [kind |-> "commit", code |-> result.code, round |-> oCounter,
                   fails |-> oModel.fails, skipUntil |-> oModel.skipUntil]
  /\ oFlight' = oFlight - 1
  /\ UNCHANGED oCounter

----------------------------------------------------------------------------
(* The interactive screens : src/unnamed/part_012 125-149, 345-351, 583-1126, *)
(* 1239-1309, 1600-1613; filters and sort : src/src/lib/targets.ts 276-350    *)

\* const CHROME_ROWS, MIN_ROWS : src/unnamed/part_012 157-158
CHROME_ROWS == 5
MIN_ROWS == 8

\* export const TIER_CYCLE : src/src/lib/targets.ts 215
TIER_CYCLE == <<"All", "S+", "S", "A+", "A", "A-", "B+", "B", "C">>

\* the keys as dispatch receives them (part_012 620-625 and the literals of the
\* handlers); ESC is "\x1b"
UP == "ESC[A"
DOWN == "ESC[B"
PGUP == "ESC[5~"
PGDN == "ESC[6~"
CR == "CR"
DEL == "DEL"
CTRL_C == "^C"

\* the keys the user presses while moving between the screens (SpecScreen) and
\* while working on the list (SpecView); "S" is the character typed into the
\* search bar, the only keys pressed in search mode are SearchKeys
ScreenKeys == {DOWN, "G", "/", CR, "p", "A", "?", "q", ESC, "s", "w", CTRL_C}
ViewKeys == {UP, DOWN, PGUP, PGDN, "g", "G", "/", ESC, DEL, "S", "t", "1", "p"}
SearchKeys == {ESC, CR, DEL, UP, DOWN, "S", CTRL_C}

\* ch.length === 1 && ch >= " " (part_012 866), over Keys
isPrintable(ch) ==
  ch \in {"g", "G", "/", "p", "A", "?", "q", "t", "w", "x", "1", "3", "s", "S", " "}

\* the heights viewport() reports (part_012 173-208): at least MIN_ROWS
ViewRows == MIN_ROWS .. (MIN_ROWS + MaxExtraRows)

\* the entities getAllModels can return, by position: the static fields that
\* filters and the static sort columns read (id, providerKey, tier). The
\* rows carry no ping history in this specification.
CatalogRow(i) ==
  [id |-> <<"a", "s", "b", "c">>[((i - 1) % 4) + 1],
   providerKey |-> <<"n", "o">>[((i - 1) % 2) + 1],
   tier |-> <<"S+", "S", "S+", "A">>[((i - 1) % 4) + 1]]
CatalogOf(n) == [i \in 1..n |-> CatalogRow(i)]
\* the catalog sizes getAllModels resolves with: no entity (every provider
\* disabled), one, and the full list
CatalogSizes == {0, 1, MaxRows}

\* String.prototype.toLowerCase over the characters in use
toLowerCase(c) == CASE c = "A" -> "a" [] c = "S" -> "s" [] OTHER -> c

\* the characters of a tier name
TierChars(t) ==
  CASE t = "S+" -> <<"S", "+">> [] t = "A+" -> <<"A", "+">> [] t = "A-" -> <<"A", "-">>
    [] t = "B+" -> <<"B", "+">> [] OTHER -> <<t>>

\* `${m.id} ${m.displayName || ''} ${m.providerKey} ${m.tier || ''} ${m.aaIntelligence ?? ''}`
\* .toLowerCase() (targets.ts 284-285); ids and provider keys are one character
\* long here, displayName and aaIntelligence are absent
Haystack(m) ==
  LET s == <<m.id, " ", " ", m.providerKey, " ">> \o TierChars(m.tier) \o <<" ">>
  IN [i \in 1..Len(s) |-> toLowerCase(s[i])]

\* String.prototype.includes
Includes(h, q) ==
  \E i \in 0..(Len(h) - Len(q)) : SubSeq(h, i + 1, i + Len(q)) = q

\* filterByTier (targets.ts 276-279)
filterByTier(list, wanted) ==
  LET hasTier(m) == m.tier = wanted
  IN IF wanted = "All" THEN list ELSE SelectSeq(list, hasTier)

\* filterBySearch (targets.ts 281-287)
filterBySearch(list, query) ==
  LET q == [i \in 1..Len(query) |-> toLowerCase(query[i])]
      matches(m) == Includes(Haystack(m), q)
  IN IF query = << >> THEN list ELSE SelectSeq(list, matches)

\* String.prototype.localeCompare over the one-character ids and provider keys
localeCompare(a, b) ==
  LET rank(c) == CASE c = "a" -> 1 [] c = "b" -> 2 [] c = "c" -> 3 [] c = "n" -> 4
                   [] c = "o" -> 5 [] OTHER -> 6
  IN rank(a) - rank(b)

\* the comparator of sortModels (targets.ts 308-324) on rows without history:
\* every row is pending, its average is Infinity and its uptime 0, so the
\* status, average and uptime keys of cmpPriority and the latency columns
\* compare equal
cmpRows(col, a, b) ==
  CASE col = "priority" ->
         IF TierRank(a.tier) # TierRank(b.tier) THEN TierRank(a.tier) - TierRank(b.tier)
         ELSE IF localeCompare(a.providerKey, b.providerKey) # 0
              THEN localeCompare(a.providerKey, b.providerKey)
              ELSE localeCompare(a.id, b.id)
    [] col = "tier" -> TierRank(a.tier) - TierRank(b.tier)
    [] col = "provider" -> localeCompare(a.providerKey, b.providerKey)
    [] col = "model" -> localeCompare(a.id, b.id)
    [] OTHER -> 0

\* Array.prototype.sort is stable: x goes behind every element it does not
\* precede
RECURSIVE insertSorted(_, _, _, _)
insertSorted(sorted, x, col, dir) ==
  IF sorted = << >> THEN <<x>>
  ELSE IF cmpRows(col, Head(sorted), x) * dir <= 0
       THEN <<Head(sorted)>> \o insertSorted(Tail(sorted), x, col, dir)
       ELSE <<x>> \o sorted

\* sortModels (targets.ts 306-326)
RECURSIVE sortModels(_, _, _)
sortModels(list, col, asc) ==
  IF list = << >> THEN << >>
  ELSE insertSorted(sortModels(SubSeq(list, 1, Len(list) - 1), col, asc),
                    list[Len(list)], col, IF asc THEN 1 ELSE -1)

\* SORT_COLS.find((s) => s.key === ch) (part_012 218-229, 930)
SortColOf(ch) ==
  CASE ch = "0" -> "priority" [] ch = "1" -> "tier" [] ch = "2" -> "provider"
    [] ch = "3" -> "model" [] OTHER -> "none"

\* the module state of part_012 125-149 while main() awaits its first
\* refreshModels (1600-1611): onData is installed, the catalog is being fetched
InitialUi ==
  [screen |-> "main", cursor |-> 0, scrollOff |-> 0, sortCol |-> "priority",
   sortAsc |-> TRUE, searchMode |-> FALSE, searchQuery |-> << >>,
   tierFilter |-> "All", pingMs |-> 2000, userNavigated |-> FALSE,
   models |-> << >>, filtered |-> << >>, running |-> FALSE, fetching |-> 1,
   timers |-> 0, sEditing |-> FALSE, tCursor |-> 0, rows |-> MIN_ROWS,
   renderTimer |-> FALSE, renderFresh |-> FALSE, loaded |-> FALSE, exited |-> FALSE]

NoUiEvent == [kind |-> "none", on |-> "main"]
\* a step that is no key event
AsyncEvent == [kind |-> "async", on |-> "main"]

\* the specifications of the other components carry no screen state
ScreenIdle == ui = << >> /\ uiEv = << >>

\* const tRows (part_012 214)
tRows(u) == Max(0, u.rows - CHROME_ROWS)

\* renderMain keeps the cursor inside the window (part_012 349-351)
renderMain(u) ==
  LET tr == tRows(u)
      off == IF u.cursor < u.scrollOff THEN u.cursor ELSE u.scrollOff
  IN [u EXCEPT !.scrollOff = IF u.cursor >= off + tr THEN u.cursor - tr + 1 ELSE off]

\* render (part_012 581-597): the other screens draw without changing state
render(u) == IF u.screen = "main" THEN renderMain(u) ELSE u

\* throttledRender (part_012 1138-1159): renderFresh says that less than
\* RENDER_INTERVAL_MS passed since _lastRenderTime
viewThrottledRender(u) ==
  IF ~u.renderFresh
  THEN render([u EXCEPT !.renderTimer = FALSE, !.renderFresh = TRUE])
  ELSE IF ~u.renderTimer THEN [u EXCEPT !.renderTimer = TRUE] ELSE u

applyFiltersNoClamp(u) ==
  [u EXCEPT !.filtered = sortModels(filterBySearch(filterByTier(u.models, u.tierFilter),
                                                   u.searchQuery),
                                    u.sortCol, u.sortAsc)]

\* applyFilters (part_012 599-617)
applyFilters(u) ==
  LET r == sortModels(filterBySearch(filterByTier(u.models, u.tierFilter), u.searchQuery),
                      u.sortCol, u.sortAsc)
      c1 == IF u.cursor >= Len(r) THEN Max(0, Len(r) - 1) ELSE u.cursor
  IN [u EXCEPT !.filtered = r,
               !.cursor = IF c1 < 0 THEN 0 ELSE c1,
               !.scrollOff = IF ~u.userNavigated THEN 0
                             ELSE Max(0, Min(u.scrollOff, Max(0, Len(r) - tRows(u))))]

\* maxCursorIndex, clampCursor (part_012 627-633)
maxCursorIndex(u) == Max(0, Len(u.filtered) - 1)
clampCursor(u, next) == Max(0, Min(maxCursorIndex(u), next))

\* noteUserNavigation (part_012 652-655)
noteUserNavigation(u) == [u EXCEPT !.userNavigated = TRUE]

\* resetSearchState (part_012 661-666)
resetSearchState(u) ==
  [u EXCEPT !.searchMode = FALSE, !.searchQuery = << >>, !.cursor = 0, !.scrollOff = 0]

\* enterTargetPickerFromSelection (part_012 675-683)
enterTargetPickerFromSelection(u) ==
  IF u.filtered = << >> THEN u
  ELSE [u EXCEPT !.tCursor = 0, !.searchMode = FALSE, !.screen = "target"]

\* the timer callback of 810-816 and 1115-1121 is scheduled
scheduleReturnToMain(u) == [u EXCEPT !.timers = @ + 1]

\* cleanup(); process.exit (part_012 1512-1521): the loop is stopped and
\* nothing of the process is left
exitProcess(u) == [InitialUi EXCEPT !.fetching = 0, !.exited = TRUE]

\* restartLoop (part_012 1296-1309): the old loop is stopped, pingRef is a new
\* running loop
viewRestartLoop(u) == [u EXCEPT !.running = TRUE]

\* handleMain, P and openApiKeyEditorFromMain (part_012 836-843, 904-910)
enterSettings(u, editing) ==
  [u EXCEPT !.running = FALSE, !.sEditing = editing,
            !.searchMode = IF editing THEN FALSE ELSE @, !.screen = "settings"]

\* toggleSort (part_012 937-944)
toggleSort(u, col) ==
  applyFilters(IF u.sortCol = col THEN [u EXCEPT !.sortAsc = ~@]
               ELSE [u EXCEPT !.sortCol = col, !.sortAsc = TRUE])

\* handleMain in search mode (part_012 847-873)
handleSearch(u, ch) ==
  IF ch = ESC THEN viewThrottledRender(applyFilters(resetSearchState(u)))
  ELSE IF ch = CR
  THEN IF u.filtered # << >>
       THEN scheduleReturnToMain([u EXCEPT !.searchMode = FALSE])
       ELSE viewThrottledRender([u EXCEPT !.searchMode = FALSE])
  ELSE IF ch = DEL
  THEN viewThrottledRender(applyFilters(
         [u EXCEPT !.searchQuery = SubSeq(@, 1, Len(@) - 1)]))
  ELSE IF ch = UP
  THEN viewThrottledRender([noteUserNavigation(u) EXCEPT !.cursor = Max(0, u.cursor - 1)])
  ELSE IF ch = DOWN
  THEN viewThrottledRender(
         [noteUserNavigation(u) EXCEPT !.cursor = clampCursor(u, u.cursor + 1)])
  ELSE IF isPrintable(ch)
  THEN viewThrottledRender(applyFilters([u EXCEPT !.searchQuery = Append(@, ch)]))
  ELSE viewThrottledRender(u)

\* handleMain outside search mode, before the trailing throttledRender
\* (part_012 875-932)
handleMainKey(u, ch) ==
  CASE ch \in {UP, "k"} -> [noteUserNavigation(u) EXCEPT !.cursor = Max(0, u.cursor - 1)]
    [] ch \in {DOWN, "j"} ->
         [noteUserNavigation(u) EXCEPT !.cursor = clampCursor(u, u.cursor + 1)]
    [] ch = PGUP -> [noteUserNavigation(u) EXCEPT !.cursor = Max(0, u.cursor - tRows(u))]
    [] ch = PGDN ->
         [noteUserNavigation(u) EXCEPT !.cursor = clampCursor(u, u.cursor + tRows(u))]
    [] ch = "g" -> [noteUserNavigation(u) EXCEPT !.cursor = 0]
    [] ch = "G" -> [noteUserNavigation(u) EXCEPT !.cursor = maxCursorIndex(u)]
    [] ch = "/" -> applyFilters([resetSearchState(u) EXCEPT !.searchMode = TRUE])
    [] ch = CR -> enterTargetPickerFromSelection(u)
    [] ch \in {"p", "P"} -> enterSettings(u, FALSE)
    [] ch \in {"a", "A"} -> enterSettings(u, TRUE)
    [] ch = "?" -> [u EXCEPT !.screen = "help"]
    [] ch = "q" -> exitProcess(u)
    [] ch \in {"t", "T"} ->
         applyFilters([u EXCEPT !.tierFilter =
           TIER_CYCLE[((CHOOSE i \in 1..Len(TIER_CYCLE) : TIER_CYCLE[i] = @) % Len(TIER_CYCLE)) + 1]])
    [] ch \in {"w", "W"} -> viewRestartLoop([u EXCEPT !.pingMs = Max(1000, @ - 1000)])
    [] ch \in {"x", "X"} -> viewRestartLoop([u EXCEPT !.pingMs = Min(30000, @ + 1000)])
    [] OTHER -> IF SortColOf(ch) # "none" THEN toggleSort(u, SortColOf(ch)) ELSE u

\* handleMain (part_012 845-935)
handleMain(u, ch) ==
  IF u.searchMode THEN handleSearch(u, ch)
  ELSE IF ch = "q" THEN handleMainKey(u, ch)
  ELSE viewThrottledRender(handleMainKey(u, ch))

\* handleSettings (part_012 946-1024); ok: validateProviderApiKey accepted the
\* typed key. Leaving settings starts refreshModels, which awaits getAllModels.
handleSettings(u, ch, ok) ==
  IF u.sEditing
  THEN IF ch = ESC \/ (ch = CR /\ ok) THEN [u EXCEPT !.sEditing = FALSE] ELSE u
  ELSE IF ch \in {ESC, "q"}
  THEN [render([u EXCEPT !.screen = "main"]) EXCEPT !.fetching = @ + 1]
  ELSE IF ch = CR THEN [u EXCEPT !.sEditing = TRUE]
  ELSE u

\* TARGETS[tCursor].enabled (part_012 537-550)
targetEnabled(u) == u.tCursor = 0

\* handleTarget (part_012 1026-1126) with the provider key configured and
\* opencode installed; ok: writeOpenCode did not throw. A launch that wrote
\* the file ends the process (1097-1107).
handleTarget(u, ch, ok) ==
  IF ch \in {ESC, "q"} THEN render([u EXCEPT !.screen = "main"])
  ELSE IF ch = UP THEN [u EXCEPT !.tCursor = Max(0, @ - 1)]
  ELSE IF ch = DOWN THEN [u EXCEPT !.tCursor = Min(1, @ + 1)]
  ELSE IF ch \in {CR, "g", "G", "s", "S"}
  THEN IF ~targetEnabled(u) THEN u
       ELSE IF ch \notin {"s", "S"} /\ ok THEN exitProcess(u)
       ELSE scheduleReturnToMain(u)
  ELSE u

dispatchAlwaysMain(u, ch, ok) ==
  IF ch = CTRL_C THEN exitProcess(u) ELSE handleMain(u, ch)

\* dispatch (part_012 1239-1254)
dispatch(u, ch, ok) ==
  IF ch = CTRL_C THEN exitProcess(u)
  ELSE IF u.screen = "help" THEN render([u EXCEPT !.screen = "main"])
  ELSE IF u.screen = "main" THEN handleMain(u, ch)
  ELSE IF u.screen = "settings" THEN handleSettings(u, ch, ok)
  ELSE handleTarget(u, ch, ok)

\* what the key would do, for the guards that keep the counters bounded
leavesSettings(u, ch) == u.screen = "settings" /\ ~u.sEditing /\ ch \in {ESC, "q"}
schedulesReturn(u, ch) ==
  \/ u.screen = "main" /\ u.searchMode /\ ch = CR
  \/ u.screen = "target" /\ ch \in {CR, "g", "G", "s", "S"}
appendsToQuery(u, ch) == u.screen = "main" /\ u.searchMode /\ isPrintable(ch)
\* the outcomes of what the key starts: the typed key validates or not, the
\* export file is written or not
Outcomes(u, ch) ==
  IF \/ u.screen = "settings" /\ u.sEditing /\ ch = CR
     \/ u.screen = "target" /\ ch \in {CR, "g", "G"}
  THEN BOOLEAN ELSE {TRUE}

\* onData hands one key of `keys` to dispatch
KeyEventOf(keys) ==
  /\ ~ui.exited
  /\ \E ch \in (IF ui.screen = "main" /\ ui.searchMode THEN keys \cap SearchKeys ELSE keys) :
       /\ leavesSettings(ui, ch) => ui.fetching < MaxFetching
       /\ schedulesReturn(ui, ch) => ui.timers < MaxExportTimers
       /\ appendsToQuery(ui, ch) => Len(ui.searchQuery) < MaxQuery
       /\ \E ok \in Outcomes(ui, ch) : ui' = dispatch(ui, ch, ok)
  /\ uiEv' = [kind |-> "key", on |-> ui.screen]

KeyEvent == KeyEventOf(ScreenKeys)
ViewKeyEvent == KeyEventOf(ViewKeys)

\* getAllModels resolves: refreshModels replaces the list and refilters
\* (part_012 1269-1280); its continuation restarts the loop and renders, after
\* the first load (1611-1613) as after leaving settings (985-988)
CatalogArrives ==
  /\ ~ui.exited
  /\ ui.fetching > 0
  /\ \E n \in CatalogSizes :
       ui' = render(viewRestartLoop(applyFilters(
               [ui EXCEPT !.models = CatalogOf(n), !.fetching = @ - 1, !.loaded = TRUE])))
  /\ uiEv' = AsyncEvent

\* a round of a loop, running or stopped meanwhile, completes: the callback of
\* restartLoop (1302-1306); paused: isAutoSortPaused()
RoundCompletes ==
  /\ ~ui.exited
  /\ ui.loaded
  /\ \E paused \in (IF ui.userNavigated THEN BOOLEAN ELSE {FALSE}) :
       ui' = render(IF paused THEN ui ELSE applyFilters(ui))
  /\ uiEv' = AsyncEvent

\* the timer of quickApplySelectionToTargets (810-816) or handleTarget
\* (1115-1121) fires
ReturnTimerFires ==
  /\ ~ui.exited
  /\ ui.timers > 0
  /\ ui' = render([ui EXCEPT !.screen = "main", !.timers = @ - 1])
  /\ uiEv' = AsyncEvent

\* the trailing render of throttledRender (1151-1157) fires when the interval
\* is over
TrailingRender ==
  /\ ~ui.exited
  /\ ui.renderTimer
  /\ ui' = render([ui EXCEPT !.renderTimer = FALSE, !.renderFresh = TRUE])
  /\ uiEv' = AsyncEvent

\* RENDER_INTERVAL_MS pass without a render
RenderIntervalPasses ==
  /\ ~ui.exited
  /\ ui.renderFresh /\ ~ui.renderTimer
  /\ ui' = [ui EXCEPT !.renderFresh = FALSE]
  /\ uiEv' = AsyncEvent

\* process.stdout.on("resize", render) (part_012 1609)
Resize ==
  /\ ~ui.exited
  /\ \E r \in ViewRows \ {ui.rows} : ui' = render([ui EXCEPT !.rows = r])
  /\ uiEv' = AsyncEvent

----------------------------------------------------------------------------
(* Specifications *)

FrontIdle == InputIdle /\ RenderIdle /\ RefreshIdle /\ BackoffIdle /\ ScreenIdle

InitAll == PooledIdle /\ PingIdle /\ MetricsIdle /\ ProbeIdle /\ FrontIdle /\ StartIdle

\* every specification leaves the components it does not move untouched
PooledOnly ==
  UNCHANGED <<screenVars, backoffVars, pingVars, metricsVars, probeVars, inputVars, renderVars, refreshVars, startVars>>
PingOnly ==
  UNCHANGED <<screenVars, backoffVars, pooledVars, metricsVars, probeVars, inputVars, renderVars, refreshVars, startVars>>
MetricsOnly ==
  UNCHANGED <<screenVars, backoffVars, pooledVars, pingVars, probeVars, inputVars, renderVars, refreshVars, startVars>>
ProbeOnly ==
  UNCHANGED <<screenVars, backoffVars, pooledVars, pingVars, metricsVars, inputVars, renderVars, refreshVars, startVars>>
InputOnly ==
  UNCHANGED <<screenVars, backoffVars, pooledVars, pingVars, metricsVars, probeVars, renderVars, refreshVars, startVars>>
RenderOnly ==
  UNCHANGED <<screenVars, backoffVars, pooledVars, pingVars, metricsVars, probeVars, inputVars, refreshVars, startVars>>
RefreshOnly ==
  UNCHANGED <<screenVars, backoffVars, pooledVars, pingVars, metricsVars, probeVars, inputVars, renderVars, startVars>>
StartOnly ==
  UNCHANGED <<screenVars, backoffVars, pooledVars, pingVars, metricsVars, probeVars, inputVars, renderVars, refreshVars>>

InitPooled == InitAll
NextPooled ==
  \/ PooledCall /\ PooledOnly
  \/ PooledSettle /\ PooledOnly
SpecPooled == InitPooled /\ [][NextPooled]_vars

InitPing == InitAll
NextPing ==
  \/ PingStart /\ PingOnly
  \/ PingResponse /\ PingOnly
  \/ PingError /\ PingOnly
  \/ PingTimer /\ PingOnly
SpecPing == InitPing /\ [][NextPing]_vars

InitMetrics ==
  /\ PooledIdle /\ PingIdle /\ ProbeIdle /\ FrontIdle /\ StartIdle
  /\ aVia \in {"apply", "runPing"}
  /\ aEnabled \in BOOLEAN
  /\ aMaxPings \in 1..MaxCap
  /\ aVia = "runPing" => aMaxPings = 1
  /\ aModel = [pings |-> << >>, metrics |-> NoMetrics]
  /\ aLog = << >>
  /\ aCheck = NoCheck
NextMetrics ==
  \/ MetricsApply /\ MetricsOnly
  \/ MetricsPush /\ MetricsOnly
  \/ ReadMetrics /\ MetricsOnly
  \/ CheckInvariant /\ MetricsOnly
SpecMetrics == InitMetrics /\ [][NextMetrics]_vars

InitProbe ==
  PooledIdle /\ PingIdle /\ MetricsIdle /\ FrontIdle /\ StartIdle /\ (ProbeIdle \/ ProbeWarm)
NextProbe ==
  \/ RestartLoop /\ ProbeOnly
  \/ LoopTimerTick /\ ProbeOnly
  \/ StopLoop /\ ProbeOnly
  \/ ProbeCompletes /\ ProbeOnly
SpecProbe == InitProbe /\ [][NextProbe]_vars

NextProbeHost ==
  \/ NextProbe
  \/ MetricsRead /\ ProbeOnly
  \/ bumpPingEpoch /\ ProbeOnly
SpecProbeHost == InitProbe /\ [][NextProbeHost]_vars

InitInput == InitAll
NextInput ==
  \/ StdinData /\ InputOnly
  \/ flushEsc /\ InputOnly
  \/ InputTimePasses /\ InputOnly
SpecInput == InitInput /\ [][NextInput]_vars

InitRender == InitAll
NextRender ==
  \/ throttledRender /\ RenderOnly
  \/ RenderTimerFires /\ RenderOnly
  \/ DirectRender /\ RenderOnly
  \/ RenderTimePasses /\ RenderOnly
SpecRender == InitRender /\ [][NextRender]_vars

InitRefresh == InitAll
NextRefresh ==
  \/ HostLoopTick /\ RefreshOnly
  \/ OpenSettings /\ RefreshOnly
  \/ LeaveSettings /\ RefreshOnly
  \/ refreshModels /\ RefreshOnly
  \/ HostProbeCompletes /\ RefreshOnly
SpecRefresh == InitRefresh /\ [][NextRefresh]_vars

InitStart ==
  /\ PooledIdle /\ PingIdle /\ MetricsIdle /\ ProbeIdle /\ FrontIdle
  /\ bArgs \in [best : BOOLEAN, tty : BOOLEAN, keys : BOOLEAN, catalog : BOOLEAN]
  /\ bPc = "start"
  /\ bExit = -1
  /\ bStderr = {}
  /\ bStdout = "-"
  /\ bRound = 0
  /\ bCounter = 0
  /\ bList = << >>
  /\ bModels = [e \in BestEntities |-> FreshModel]
  /\ bEv = NoBestEvent
NextStart ==
  \/ runBest /\ StartOnly
  \/ runBestRound /\ StartOnly
  \/ main /\ StartOnly
  \/ wizardReturns /\ StartOnly
  \/ quitKey /\ StartOnly
SpecStart == InitStart /\ [][NextStart]_vars

BackoffOnly ==
  UNCHANGED <<screenVars, pooledVars, pingVars, metricsVars, probeVars, inputVars, renderVars,
              refreshVars, startVars>>
InitBackoff == InitAll
NextBackoff ==
  \/ BackoffRoundStarts /\ BackoffOnly
  \/ BackoffCommit /\ BackoffOnly
SpecBackoff == InitBackoff /\ [][NextBackoff]_vars

ScreenOnly ==
  UNCHANGED <<pooledVars, pingVars, metricsVars, probeVars, inputVars, renderVars,
              refreshVars, startVars, backoffVars>>
InitScreen ==
  /\ PooledIdle /\ PingIdle /\ MetricsIdle /\ ProbeIdle /\ StartIdle
  /\ InputIdle /\ RenderIdle /\ RefreshIdle /\ BackoffIdle
  /\ ui = InitialUi /\ uiEv = NoUiEvent
NextScreen ==
  \/ KeyEvent /\ ScreenOnly
  \/ CatalogArrives /\ ScreenOnly
  \/ RoundCompletes /\ ScreenOnly
  \/ ReturnTimerFires /\ ScreenOnly
  \/ TrailingRender /\ ScreenOnly
  \/ RenderIntervalPasses /\ ScreenOnly
  \/ Resize /\ ScreenOnly
SpecScreen == InitScreen /\ [][NextScreen]_vars

InitView == InitScreen
NextView ==
  \/ ViewKeyEvent /\ ScreenOnly
  \/ CatalogArrives /\ ScreenOnly
  \/ RoundCompletes /\ ScreenOnly
  \/ TrailingRender /\ ScreenOnly
  \/ RenderIntervalPasses /\ ScreenOnly
  \/ Resize /\ ScreenOnly
SpecView == InitView /\ [][NextView]_vars

----------------------------------------------------------------------------
(* C1: for pooled(items, limit, fn) with 1 <= limit <= |items|, the number of
   fn invocations started and not yet resolved never exceeds limit. *)
C1_ConcurrencyBound ==
  (pPc # "idle" /\ 1 <= pLimit /\ pLimit <= pLen) => Cardinality(pActive) <= pLimit

\* the limit binds: a worker that finished has claimed a further item while
\* the pool is full and items are still unclaimed
C1_Witness ==
  /\ pPc = "running" /\ 1 <= pLimit /\ pLimit < pLen
  /\ Len(pEach) >= 1
  /\ Cardinality(pActive) = pLimit
  /\ pI < pLen

----------------------------------------------------------------------------
(* C7: whatever the order and multiplicity of the signals of one probe,
   ping() resolves exactly once, with the classification of the signal that
   came first; later signals leave the outcome unchanged. *)
C7_SettleOnceFirstWins ==
  (kPc = "inflight" /\ kSignals # << >>) =>
     /\ kResolves = 1
     /\ kSettled
     /\ kOutcome = [code |-> Head(kSignals).code, detail |-> Head(kSignals).detail]

\* a response came first and an error and a further response followed
C7_Witness ==
  /\ Len(kSignals) = 3
  /\ kSignals[1].kind = "response" /\ kSignals[1].code = "200"
  /\ kSignals[2].kind = "error"
  /\ kSignals[3].kind = "response" /\ kSignals[3].code = "500"
  /\ kOutcome.code = "200"

(* C8: when the timer expires before a response status or an error was seen,
   the probe settles with "000", never "ERR", and the request is destroyed;
   the error raised by the destroy does not alter the outcome. Both timeout
   classes (2500 ms, 6000 ms). *)
C8_TimeoutSettles000 ==
  (kSignals # << >> /\ Head(kSignals).kind = "timer") =>
     /\ kOutcome = [code |-> "000", detail |-> ""]
     /\ kDestroyed
     /\ kResolves = 1

\* first-contact timeout class: the timer fired first, the destroy raised an error
C8_Witness ==
  /\ kTimeoutMs = INITIAL_TIMEOUT_MS
  /\ Len(kSignals) >= 2
  /\ kSignals[1].kind = "timer"
  /\ kSignals[2].kind = "error"
  /\ kDestroyed
  /\ kOutcome.code = "000"

----------------------------------------------------------------------------
\* the last n elements of a sequence
LastN(seq, n) == SubSeq(seq, Len(seq) - n + 1, Len(seq))

(* C5: from an empty history, after every applyModelPingResult call (any mix
   of 200 and non-200 outcomes, any capacity N >= 1, evictions included) the
   rolling snapshot equals recomputeMetricsFromPings of the retained history. *)
C5_SnapshotEqualsRescan ==
  (aVia = "apply" /\ aEnabled /\ Len(aLog) >= 1) =>
     aModel.metrics = recomputeMetricsFromPings(aModel.pings)

\* an apply evicted a successful ping and a failed one is retained
C5_Witness ==
  /\ aVia = "apply" /\ aEnabled /\ aMaxPings = 2
  /\ Len(aLog) = 4
  /\ aLog[1].code = "200" /\ aLog[2].code = "500" /\ aLog[3].code = "200"
  /\ aModel.metrics.count = 2

(* C6: the history length never exceeds the capacity N (MAX_PINGS in
   pingAllOnce, maxPings in applyModelPingResult); an append beyond N removes
   exactly the oldest entry, so the history is the most recent min(N, total)
   outcomes in arrival order. *)
C6_RingBoundFifo ==
  /\ Len(aModel.pings) <= aCap
  /\ aModel.pings = LastN(aLog, Min(aCap, Len(aLog)))

\* the pingAllOnce ring has evicted: more outcomes arrived than it holds
C6_Witness ==
  /\ aVia = "runPing"
  /\ Len(aLog) = MAX_PINGS + 2
  /\ Len(aModel.pings) = MAX_PINGS
  /\ aLog[1] # aLog[MAX_PINGS + 1]

----------------------------------------------------------------------------
\* the step is the completion of a probe of entity e
SettledNow(e) == ev'.kind = "settle" /\ ev'.ent = e

(* C2: a probe result is committed only if the epoch recorded at issue equals
   the current epoch and its sequence is not older than the last committed
   one; otherwise it is dropped: history, status and last code unchanged (and
   the stale-drop counter incremented). *)
C2_StaleResultDropped ==
  [][\A e \in Entities :
       (SettledNow(e) /\ ~(ev'.epoch = pingEpoch /\ ev'.seq >= appendSeq[e])) =>
          /\ models'[e].pings = models[e].pings
          /\ models'[e].status = models[e].status
          /\ models'[e].httpCode = models[e].httpCode
          /\ appendSeq'[e] = appendSeq[e]]_vars

(* C3: per entity, outcomes are appended in the order their probes were
   dispatched, also when rounds overlap after stopPingLoop/startPingLoop: an
   earlier-dispatched outcome is never appended after a later-dispatched one. *)
C3_AppendInDispatchOrder ==
  [][\A e \in Entities : appendSeq'[e] >= appendSeq[e]]_vars

(* C4: in every reachable state of the probing system, with probe completions
   and metric reads interleaved in any order, a snapshot that is present
   equals the rescan of the retained history. *)
C4_SnapshotMatchesHistory ==
  \A e \in Entities :
     models[e].metrics.version = METRICS_CACHE_VERSION =>
        models[e].metrics = recomputeMetricsFromPings(models[e].pings)

(* C9: for any combination of probe outcomes pingAllOnce returns (it is never
   left without an outstanding probe to wait for), and every entity eligible
   in the round gets exactly one new history entry from that round; a failing
   probe does not keep another eligible entity from being probed. *)
C9_EveryEligibleCommittedOnce ==
  /\ \A c \in calls :
       /\ c.probes # {}
       /\ \A e \in Entities :
            /\ c.committed[e] <= 1
            /\ e \notin c.eligible => c.committed[e] = 0
            /\ (\E p \in c.probes : p.ent = e) => (e \in c.eligible /\ c.committed[e] = 0)
  /\ \A e \in Entities :
       finished.committed[e] = IF e \in finished.eligible THEN 1 ELSE 0

\* a round returned in which one probe timed out and the other was refused
C9_Witness ==
  /\ roundCounter = 1 /\ calls = {}
  /\ finished.round = 1 /\ finished.eligible = {"m1", "m2"}
  /\ models["m1"].httpCode = "000" /\ Len(models["m1"].pings) = 1
  /\ models["m2"].httpCode = "ERR" /\ Len(models["m2"].pings) = 1
  /\ Len(models["mx"].pings) = 0

(* C10: a committed outcome other than 200 and 401 increases the
   consecutive-failure counter by exactly 1, a committed 200 or 401 sets it
   to 0; the counter is never negative. *)
C10_FailCounterStep ==
  [][\A e \in Entities :
       /\ models'[e].fails >= 0
       /\ SettledNow(e) =>
            models'[e].fails =
              IF ev'.code \in {"200", "401"} THEN 0 ELSE models[e].fails + 1]_vars

\* a 401 has just reset a counter that a failure had raised
C10_Witness ==
  /\ ev.kind = "settle" /\ ev.ent = "m1" /\ ev.code = "401"
  /\ Len(models["m1"].pings) = 2
  /\ models["m1"].pings[1].code = "000"
  /\ models["m1"].fails = 0
  /\ models["m2"].fails = 2

----------------------------------------------------------------------------
\* the step is the start of a round: pingAllOnce counted it
RoundStarts == roundCounter' = roundCounter + 1

\* the round that starts in this step probes entity e
IncludedInNewRound(e) == \E c \in calls' \ calls : e \in c.eligible

\* the round that starts in this step issues a probe for e at once
IssuedInNewRound(e) == \E c \in calls' \ calls : \E p \in c.probes : p.ent = e

\* e is excluded from round number round: its provider key is unknown, or its
\* counter is at or above the threshold and round is below its resume round
ExcludedFrom(e, round) ==
  \/ providerKey[e] \notin KnownProviders
  \/ models[e].fails >= BACKOFF_THRESHOLD /\ round < models[e].skipUntil

(* C11: when a failing commit in round r brings the counter of an entity to
   c >= 3, the entity is excluded from exactly min(32, 2^(c - 3)) subsequent
   rounds, that is from rounds r+1 .. r+delay, and probed again in round
   r+delay+1. (r is recovered from the resume round the commit recorded,
   r + delay.) *)
C11_ExcludedForDelayRounds ==
  [][\A e \in Entities :
       (RoundStarts /\ providerKey[e] \in KnownProviders
          /\ models[e].fails >= BACKOFF_THRESHOLD) =>
         LET delay == Min(32, Pow2(models[e].fails - 3))
             r == models[e].skipUntil - delay
         IN /\ roundCounter' \in (r + 1)..(r + delay) => ~IncludedInNewRound(e)
            /\ roundCounter' = r + delay + 1 => IncludedInNewRound(e)]_vars

(* C12: after a committed 200 or 401 the pending skip is cleared at once: the
   resume round recorded before the success excludes the entity from no later
   round, and the next round that starts includes it. *)
C12_SuccessClearsSkip ==
  [][\A e \in Entities :
       /\ (SettledNow(e) /\ ev'.code \in {"200", "401"}) =>
            \A later \in (roundCounter' + 1)..(roundCounter' + 33) : isEligible(e, later)'
       /\ (RoundStarts /\ providerKey[e] \in KnownProviders /\ models[e].fails = 0) =>
            IncludedInNewRound(e)]_vars

\* a success was committed while the resume round recorded by an earlier
\* failure still lay beyond the next round
C12_Witness ==
  /\ ev.kind = "settle" /\ ev.ent = "m2" /\ ev.code = "200"
  /\ models["m2"].fails = 0
  /\ models["m2"].skipUntil > roundCounter + 1

(* C13: an entity excluded from a round (provider key unknown, or counter at
   or above the threshold and round number below its resume round) has no
   probe issued for it in that round, and the round changes none of its
   fields: history, status, last code, failure counter, resume round. *)
C13_ExcludedUntouched ==
  [][/\ \A e \in Entities :
          (RoundStarts /\ ExcludedFrom(e, roundCounter')) =>
             /\ ~IncludedInNewRound(e)
             /\ ~IssuedInNewRound(e)
             /\ dispatchSeq'[e] = dispatchSeq[e]
             /\ models'[e] = models[e]
     /\ \A c \in calls' : \A e \in Entities :
          ((\E p \in c.probes : p.ent = e)
             \/ (\E k \in 1..Len(c.queue) : c.queue[k] = e)
             \/ (\E k \in 1..Len(c.steady) : c.steady[k] = e)) => e \in c.eligible
     /\ ev'.kind = "settle" =>
          \E c \in calls : /\ c.loop = ev'.loop /\ ev'.ent \in c.eligible
                           /\ \A e \in Entities \ c.eligible : models'[e] = models[e]]_vars

\* a round has started that leaves out m2, in backoff after four failures,
\* and mx, whose provider is unknown
C13_Witness ==
  /\ ev.kind = "start"
  /\ models["m2"].fails = 4 /\ roundCounter < models["m2"].skipUntil
  /\ \E c \in calls : c.round = roundCounter /\ c.eligible = {"m1"}
  /\ dispatchSeq["m2"] = appendSeq["m2"]

(* C14: the rounds of one startPingLoop call never overlap: the first round
   starts with the call, round k+1 starts only after round k has completed
   and onUpdate was invoked for it, and onUpdate is invoked exactly once per
   completed round. *)
C14_LoopRoundsInSequence ==
  [][/\ \A c1, c2 \in calls' : c1.loop = c2.loop => c1 = c2
     /\ pingRef'.id # pingRef.id => (RoundStarts /\ ev'.loop = pingRef'.id)
     /\ (pingRef'.timer = "pending" /\ pingRef.timer # "pending") =>
          (ev'.update /\ ev'.loop = pingRef'.id)
     /\ (RoundStarts /\ pingRef'.id = pingRef.id) =>
          (pingRef.timer = "pending" /\ \A c \in calls : c.loop # pingRef.id)
     /\ ev'.update <=>
          \/ \E c \in calls : c.loop = ev'.loop /\ calls' = calls \ {c}
          \/ RoundStarts /\ calls' = calls]_vars

\* the second round of a loop has completed and its timer is armed again
C14_Witness ==
  /\ pingRef.running /\ pingRef.timer = "pending"
  /\ roundCounter = round0 + 2
  /\ finished.round = roundCounter
  /\ ev.kind = "settle" /\ ev.update /\ ev.loop = pingRef.id
  /\ stoppedLoops = {}

(* C15: after stopPingLoop(ref) the loop of ref never starts another round,
   whether it was stopped while a round was in flight or while the timer was
   pending: no round is started for a stopped loop and no timer of a stopped
   loop is pending. *)
C15_StoppedLoopStartsNoRound ==
  [][/\ RoundStarts => (ev'.loop \notin stoppedLoops /\ ev'.loop \notin stoppedLoops')
     /\ pingRef'.timer = "pending" => pingRef'.id \notin stoppedLoops']_vars

\* a loop was stopped while its round was in flight; the round has completed
\* and nothing is scheduled
C15_Witness ==
  /\ ev.kind = "settle" /\ ev.update
  /\ ev.loop = pingRef.id /\ pingRef.id \in stoppedLoops
  /\ ~pingRef.running /\ pingRef.timer = "none"
  /\ calls = {}

(* C16 as stated: once a loop was cancelled, neither the per-probe callback
   nor the round-complete callback of that loop is invoked for the probes
   still in flight. *)
C16_NoCallbackAfterCancel ==
  [][(ev'.kind = "settle" /\ ev'.loop \in stoppedLoops) =>
        (~ev'.each /\ ~ev'.update)]_vars

(* C16 amended: once a loop was cancelled, its probes still in flight finish;
   onEachPing is still invoked for each of them and onUpdate once when their
   round completes; what is suppressed is the rescheduling: no timer is armed
   and no round is started. *)
C16_CancelOnlyStopsScheduling ==
  [][(ev'.kind = "settle" /\ ev'.loop \in stoppedLoops) =>
        /\ ev'.each
        /\ ev'.update <=> (\E c \in calls : c.loop = ev'.loop /\ calls' = calls \ {c})
        /\ pingRef' = pingRef
        /\ roundCounter' = roundCounter]_vars

\* the last probe of a loop that restartLoop replaced has finished: both
\* callbacks ran, the timer of the running loop is untouched
C16_Witness ==
  /\ ev.kind = "settle" /\ ev.each /\ ev.update
  /\ ev.loop \in stoppedLoops /\ ev.loop # pingRef.id
  /\ pingRef.running /\ pingRef.timer = "none"

----------------------------------------------------------------------------
\* the concatenation of a list of strings
RECURSIVE Flatten(_)
Flatten(parts) == IF parts = << >> THEN << >> ELSE Head(parts) \o Flatten(Tail(parts))

\* the characters stdin delivered, in order
RECURSIVE DeliveredChars(_)
DeliveredChars(log) == IF log = << >> THEN << >> ELSE Head(log).chunk \o DeliveredChars(Tail(log))

\* the last thing the event loop delivered is a chunk that is one escape byte
LoneEscapeLast == inLog # << >> /\ inLog[Len(inLog)] = DataEvent(<<ESC>>)

(* C17: when a single escape byte is delivered and no further input arrives
   within the grace window (50 ms), exactly one event, the bare escape, is
   dispatched, at the expiry of the window and not before; after that the
   pending buffer is empty and no timer is pending. *)
C17_LoneEscapeFlushedAtExpiry ==
  [][LoneEscapeLast =>
       /\ escBuf = <<ESC>>
       /\ escTimer = {ESC_GRACE_MS - idle}
       /\ inLog' = inLog => (dispatched' = dispatched /\ idle < ESC_GRACE_MS)
       /\ inLog' = Append(inLog, TimerEvent) =>
            /\ idle = ESC_GRACE_MS
            /\ dispatched' = Append(dispatched, <<ESC>>)
            /\ escBuf' = << >>
            /\ escTimer' = {}]_vars

\* one escape byte, 50 ms of silence, the flush
C17_Witness ==
  /\ inLog = <<DataEvent(<<ESC>>), TimerEvent>>
  /\ idle = ESC_GRACE_MS
  /\ dispatched = <<<<ESC>>>>
  /\ escBuf = << >> /\ escTimer = {}

\* the key sequences of the handlers that the alphabet can spell: UP "\x1b[A"
\* and PGUP "\x1b[5~" (src/unnamed/part_012 620-625)
RecognizedSequences == {<<ESC, "[", "A">>, <<ESC, "[", "5", "~">>}

(* C18: when an escape byte is followed, before the grace window expires, by
   the remaining bytes of a recognized sequence, then however the remaining
   bytes are split across deliveries, exactly one event equal to the whole
   sequence is dispatched: no bare escape, no literal character. (No timer
   expiry in the log: the sequence was complete before the flush ran.) *)
C18_SplitSequenceIsOneEvent ==
  (/\ inLog # << >>
   /\ inLog[1] = DataEvent(<<ESC>>)
   /\ \A k \in 1..Len(inLog) : inLog[k].kind = "data"
   /\ DeliveredChars(inLog) \in RecognizedSequences) =>
     dispatched = <<DeliveredChars(inLog)>>

\* an element of the list splitEscapeSequences returns: a CSI sequence
\* starting with ESC "[", a bare ESC, or a single character
IsSplitElement(part) ==
  \/ Len(part) = 1
  \/ Len(part) >= 2 /\ part[1] = ESC /\ part[2] = "["

\* the events dispatched in this step
NewlyDispatched == SubSeq(dispatched', Len(dispatched) + 1, Len(dispatched'))

\* the step delivers a stdin chunk
ChunkDelivered == Len(inLog') = Len(inLog) + 1 /\ inLog'[Len(inLog')].kind = "data"

(* C19 as stated: for every input string s delivered in one chunk,
   splitEscapeSequences(s) concatenates to s, each element is a CSI sequence
   starting with ESC "[", a bare ESC or a single character, and onData
   dispatches the elements one event each in list order. *)
C19_EveryChunkSplitAndDispatched ==
  [][ChunkDelivered =>
       LET s == inLog'[Len(inLog')].chunk
           parts == splitEscapeSequences(s)
       IN /\ Flatten(parts) = s
          /\ \A k \in 1..Len(parts) : IsSplitElement(parts[k])
          /\ NewlyDispatched = parts]_vars

(* C19 amended: for every input string s the list splitEscapeSequences(s)
   concatenates to s and each element is a CSI sequence starting with ESC
   "[", a bare ESC or a single character; for every chunk of two or more
   characters onData dispatches the elements one event each in list order
   (a one-character chunk goes through the escape buffer instead). *)
C19_LongChunkSplitAndDispatched ==
  [][ChunkDelivered =>
       LET s == inLog'[Len(inLog')].chunk
           parts == splitEscapeSequences(s)
       IN /\ Flatten(parts) = s
          /\ \A k \in 1..Len(parts) : IsSplitElement(parts[k])
          /\ Len(s) >= 2 => NewlyDispatched = parts]_vars

\* one chunk held a literal, a whole arrow key and the start of a sequence
C19_Witness ==
  /\ inLog = <<DataEvent(<<"5", ESC, "[", "A">>)>>
  /\ dispatched = <<<<"5">>, <<ESC, "[", "A">>>>

----------------------------------------------------------------------------
(* C20 as stated: frames are never written less than the minimum render
   interval (33 ms) apart: a state change within the interval since the last
   frame does not render immediately but is deferred to a single trailing
   render, and at most one trailing render is pending at any time. *)
C20_FramesAtLeastIntervalApart ==
  [][/\ rEv'.wrote => \A f \in lastFrame : clock' - f.at >= RENDER_INTERVAL_MS
     /\ Cardinality(timeouts') <= 1]_vars

(* C20 amended: the frames throttledRender writes (at once or from its
   trailing timeout) are never less than 33 ms apart: a throttledRender call
   within the interval since the last such frame writes nothing and leaves
   exactly one trailing timeout pending, due one interval after that frame;
   at most one trailing timeout is pending at any time. Direct render()
   calls are not throttled. *)
C20_ThrottledFramesApart ==
  [][/\ (rEv'.wrote /\ rEv'.kind \in {"call", "timer"}) =>
          \A at \in lastThrottled : clock' - at >= RENDER_INTERVAL_MS
     /\ \A at \in lastThrottled :
          (rEv'.kind = "call" /\ clock - at < RENDER_INTERVAL_MS) =>
             /\ ~rEv'.wrote
             /\ lastFrame' = lastFrame
             /\ \E t \in timeouts' : timeouts' = {t} /\ t.due = at + RENDER_INTERVAL_MS
     /\ Cardinality(timeouts') <= 1]_vars

\* a change 10 ms after a frame was deferred, a second one coalesced, and the
\* trailing timeout has written the frame one interval after the first
C20_Witness ==
  /\ rEv = [kind |-> "timer", wrote |-> TRUE]
  /\ clock = 2 * RENDER_INTERVAL_MS
  /\ lastThrottled = {clock}
  /\ lastFrame = {[at |-> clock, via |-> "throttled"]}
  /\ timeouts = {} /\ renderTimer = {}

(* C21: no view update is lost by throttling: after any number of
   throttledRender calls within one render interval, a render occurs after
   the last of them and shows the state as of that call. As long as a change
   is not on the screen, exactly one trailing timeout is pending, it is the
   one _renderTimer refers to and it is due one interval after the last
   throttled frame; when it runs it writes the current state. *)
C21_NoUpdateLost ==
  [][/\ dirty' =>
          \E t \in timeouts' :
             /\ timeouts' = {t}
             /\ renderTimer' = {t.id}
             /\ t.due = lastRenderTime' + RENDER_INTERVAL_MS
     /\ rEv'.kind = "timer" => (rEv'.wrote /\ ~dirty' /\ lastFrame' = {[at |-> clock', via |-> "throttled"]})
     /\ (rEv'.kind = "call" /\ ~rEv'.wrote) => dirty']_vars

\* a second change within the interval found the trailing timeout of the
\* first one pending: it waits for that timeout
C21_Witness ==
  /\ dirty
  /\ rEv = [kind |-> "call", wrote |-> FALSE]
  /\ clock = lastRenderTime + 20
  /\ lastThrottled = {lastRenderTime}
  /\ \E t \in timeouts : t.due = clock + 13


\* the probe state of the entity the list holds for identity k, the history by value
EntityState(k) ==
  LET o == hObjs[Held(k)]
  IN [pings |-> hArrays[o.pings], status |-> o.status, httpCode |-> o.httpCode,
      fails |-> o.fails, skipUntil |-> o.skipUntil]

CatalogInitialState ==
  [pings |-> << >>, status |-> "pending", httpCode |-> "null", fails |-> 0,
   skipUntil |-> 0]

(* C22: a catalog refresh keeps, for every identity that was in the list and is
   in the fresh list, the history, status, last code, failure counter and
   skip-until round unchanged; an identity absent from the fresh list is no
   longer in the list; an identity that is new starts with the catalog's
   initial state (empty history, pending). *)
C22_RefreshKeepsProbeState ==
  [][hEv'.kind = "refresh" =>
       \A k \in CatalogKeys :
          /\ (k \in ListKeys /\ k \in hEv'.fresh) =>
                (k \in ListKeys' /\ EntityState(k)' = EntityState(k))
          /\ k \notin hEv'.fresh => k \notin ListKeys'
          /\ (k \in hEv'.fresh /\ k \notin ListKeys) =>
                (k \in ListKeys' /\ EntityState(k)' = CatalogInitialState)]_vars

\* a refresh has just kept a backed-off entity with history, dropped one
\* identity and added one
C22_Witness ==
  /\ hEv.kind = "refresh"
  /\ \E k \in hEv.before \cap hEv.fresh :
        /\ EntityState(k).pings # << >>
        /\ EntityState(k).fails >= BACKOFF_THRESHOLD
        /\ EntityState(k).skipUntil > 0
  /\ hEv.before \ hEv.fresh # {}
  /\ hEv.fresh \ hEv.before # {}

(* C23: when a probe of an identity was in flight while a refresh merged the
   list and the identity persisted, then at the probe's completion its history
   entry, last code, status and failure counter are all visible on the entity
   the list now holds for that identity. *)
C23_InFlightResultVisible ==
  [][(hEv'.kind = "commit" /\ hEv'.before # {}) =>
       \A k \in hEv'.before :
          k \in ListKeys' =>
            /\ EntityState(k)'.pings # << >>
            /\ EntityState(k)'.pings[Len(EntityState(k)'.pings)].code = hEv'.code
            /\ EntityState(k)'.httpCode = hEv'.code
            /\ EntityState(k)'.status = StatusOf(hEv'.code)
            /\ EntityState(k)'.fails = hObjs'[hEv'.obj].fails]_vars
----------------------------------------------------------------------------
\* two averages denote the same number
SameAvg(x, y) == IF x.n = 0 \/ y.n = 0 THEN x.n = y.n ELSE x.sum * y.n = y.sum * x.n

\* the full scan of a history: mean latency of the 200-coded pings, uptime %
ScanAvg(pings) ==
  LET ok == SelectSeq(pings, LAMBDA p : p.code = "200")
      F[k \in 0..Len(ok)] == IF k = 0 THEN 0 ELSE F[k - 1] + ok[k].ms
  IN [sum |-> F[Len(ok)], n |-> Len(ok)]
ScanUptime(pings) ==
  LET ok == Len(SelectSeq(pings, LAMBDA p : p.code = "200"))
      total == Len(pings)
      twice == 200 * ok
  IN IF total = 0 THEN 0
     ELSE CHOOSE r \in 0..100 : 2 * total * r <= twice + total /\ twice + total < 2 * total * (r + 1)

(* C24: for every entity state, getAvg and getUptime return the values of a
   full scan of the retained history (mean latency of the 200-coded pings or
   Infinity; round(100 * ok / total) or 0) whenever the snapshot is missing,
   disabled, or stale with respect to the history. *)
C24_ReadsFallBackToScan ==
  (\/ aModel.metrics = NoMetrics
   \/ ~aEnabled
   \/ aModel.metrics # recomputeMetricsFromPings(aModel.pings)) =>
     /\ SameAvg(getAvg(aModel, aEnabled), ScanAvg(aModel.pings))
     /\ getUptime(aModel, aEnabled) = ScanUptime(aModel.pings)

\* the entity of SpecMetrics has a snapshot and it is not the rescan of its history
SnapshotDiverges ==
  /\ aModel.metrics # NoMetrics
  /\ aModel.metrics # recomputeMetricsFromPings(aModel.pings)

(* C25: whenever an entity's snapshot differs from the rescan of its history in
   any field (count, okCount or sumOkMs), assertModelMetricsInvariant returns
   ok = false with a reason and leaves the snapshot and the history as they
   were: the check does not repair the divergence. *)
C25_CheckReportsAndKeeps ==
  [][(SnapshotDiverges /\ aCheck' # NoCheck) =>
       /\ aCheck'.ok = FALSE
       /\ aCheck'.reason \in {"count mismatch", "okCount mismatch", "sumOkMs mismatch"}
       /\ aModel' = aModel]_vars

\* the check has just reported a snapshot that differs in the latency sum only
C25_Witness ==
  /\ aCheck = [ok |-> FALSE, reason |-> "sumOkMs mismatch"]
  /\ SnapshotDiverges
  /\ aModel.metrics.count = Len(aModel.pings)
----------------------------------------------------------------------------
(* C26: the probing loop is never started when startup is fatal: when there is
   no interactive terminal, and likewise when no credential is configured, the
   process reports on the error stream and exits with a non-zero code before
   any probe round starts; a normal interactive quit (q or Ctrl+C) exits 0. *)
C26_FatalStartupNeverProbes ==
  /\ (~bArgs.tty \/ ~bArgs.keys) =>
        /\ bRound = 0
        /\ bPc \in {"start", "wizard", "exited"}
        /\ bPc = "exited" => (bExit > 0 /\ bStderr # {})
  /\ bEv.kind = "quit" => bExit = 0

(* C26 as the code has it: the interactive mode without a terminal, and --best
   without a credential, report on stderr and exit with code 1 before any
   probe round starts; a quit by q or Ctrl+C exits with code 0. *)
C26_FatalStartupByMode ==
  /\ (~bArgs.best /\ ~bArgs.tty) =>
        /\ bRound = 0
        /\ bPc \in {"start", "exited"}
        /\ bPc = "exited" =>
              /\ bExit = 1
              /\ bStderr = IF bArgs.keys
                             THEN {"frouter requires an interactive terminal"}
                             ELSE {"Fatal: TypeError"}
  /\ (bArgs.best /\ ~bArgs.keys) =>
        /\ bRound = 0
        /\ bPc \in {"start", "exited"}
        /\ bPc = "exited" => (bExit = 1 /\ bStderr = {"No API keys configured"})
  /\ bEv.kind = "quit" => bExit = 0

\* the interactive mode, started with a credential and without a terminal, has
\* exited
C26_Witness ==
  /\ ~bArgs.best /\ ~bArgs.tty /\ bArgs.keys
  /\ bEv.kind = "main"
  /\ bPc = "exited" /\ bExit = 1

\* a < b for averages as fractions, Infinity above every number
AvgBelow(a, b) == a.n > 0 /\ (b.n = 0 \/ a.sum * b.n < b.sum * a.n)

(* C27: --best terminates after at most 4 probe rounds; it stops before the
   4th round only when at least 2 rounds have completed and the current best
   candidate has at least 2 pings and an average latency below 500 ms. *)
C27_BestStopsWithinFourRounds ==
  /\ bRound <= 4
  /\ (bArgs.best /\ bEv.kind = "done" /\ bRound < 4) =>
        /\ bRound >= 2
        /\ bStdout \in BestEntities
        /\ Len(bModels[bStdout].pings) >= 2
        /\ AvgBelow(ScanAvg(bModels[bStdout].pings), [sum |-> 500, n |-> 1])

\* entity c comes strictly before entity d in the priority order: availability,
\* then higher tier, then lower average latency, then higher uptime
ComesBefore(c, d) ==
  LET upC == IF bModels[c].status = "up" THEN 0 ELSE 1
      upD == IF bModels[d].status = "up" THEN 0 ELSE 1
      avgC == ScanAvg(bModels[c].pings)
      avgD == ScanAvg(bModels[d].pings)
  IN \/ upC < upD
     \/ /\ upC = upD
        /\ \/ TierRank(bestTier[c]) < TierRank(bestTier[d])
           \/ /\ TierRank(bestTier[c]) = TierRank(bestTier[d])
              /\ \/ AvgBelow(avgC, avgD)
                 \/ /\ SameAvg(avgC, avgD)
                    /\ ScanUptime(bModels[c].pings) > ScanUptime(bModels[d].pings)

(* C28: findBestModel returns null exactly when no entity has any ping;
   otherwise it returns an entity that no entity with at least one ping comes
   before in the priority order (availability, higher tier, lower average
   latency, higher uptime); if an entity with a ping has status up, the
   returned entity has status up. *)
C28_BestIsMinimal ==
  bEv.found # "-" =>
    LET pinged == {e \in BestEntities : Len(bModels[e].pings) > 0}
    IN /\ bEv.found = "null" <=> pinged = {}
       /\ bEv.found # "null" =>
             /\ bEv.found \in pinged
             /\ \A c \in pinged : ~ComesBefore(c, bEv.found)
             /\ (\E c \in pinged : bModels[c].status = "up") =>
                    bModels[bEv.found].status = "up"
----------------------------------------------------------------------------
\* the last step committed a failure: a result other than 200 and 401
FailingCommit == oEv.kind = "commit" /\ oEv.code \notin {"200", "401"}

(* C29: whenever a failing commit leaves the consecutive-failure counter at
   c >= 3, the recorded skip-until equals the round counter at the commit plus
   min(32, 2^(c-3)), a window that never exceeds 32 rounds; along an unbroken
   run of failures (a failing commit that follows a failing commit) the
   recorded skip-until never decreases. *)
C29_BackoffWindow ==
  /\ (FailingCommit /\ oModel.fails >= 3) =>
        /\ oModel.skipUntil =
             oEv.round + (IF oModel.fails - 3 >= 5 THEN 32 ELSE Pow2(oModel.fails - 3))
        /\ oModel.skipUntil - oEv.round <= 32
  /\ (FailingCommit /\ oEv.fails >= 1) => oModel.skipUntil >= oEv.skipUntil
----------------------------------------------------------------------------
\* the entities of a list, and those the probes in flight of a call are for
ListedIn(list) == {list[k] : k \in 1..Len(list)}
ProbedBy(c) == {p.ent : p \in c.probes}

\* call c has just been started by this step: its entities with an empty
\* history form the first pass, the others wait in c.steady
StartedAsPartition(c) ==
  LET firstContact == {e \in c.eligible : Len(models[e].pings) = 0}
      steadyState == c.eligible \ firstContact
  IN IF firstContact # {}
       THEN /\ c.phase = INITIAL_PASS
            /\ ProbedBy(c) \cup ListedIn(c.queue) = firstContact
            /\ ListedIn(c.steady) = steadyState
       ELSE /\ c.phase = STEADY_PASS
            /\ ProbedBy(c) \cup ListedIn(c.queue) = steadyState

\* call d has become c in this step: probes are issued from the pass in
\* progress, and the steady pass starts when the first pass has drained
ContinuedInOrder(d, c) ==
  LET issued == {p.ent : p \in c.probes \ d.probes}
  IN /\ (d.phase = INITIAL_PASS /\ c.phase = INITIAL_PASS) =>
          (c.steady = d.steady /\ issued \subseteq ListedIn(d.queue))
     /\ (d.phase = INITIAL_PASS /\ c.phase = STEADY_PASS) =>
          /\ Cardinality(d.probes) = 1 /\ d.queue = << >>
          /\ c.probes \cap d.probes = {}
          /\ issued \subseteq ListedIn(d.steady)
     /\ d.phase = STEADY_PASS => c.phase = STEADY_PASS

(* C30: within one round the eligible entities are partitioned by whether
   their history was empty when the round started; no steady-state probe is
   issued until every first-contact probe of the round has completed;
   first-contact probes run with timeout 2500 ms under concurrency limit 64,
   steady-state probes with timeout 6000 ms under limit 20. *)
C30_FirstContactBeforeSteady ==
  [][\A c \in calls' :
       /\ \A p \in c.probes :
            p.timeoutMs = IF c.phase = INITIAL_PASS THEN 2500 ELSE 6000
       /\ Cardinality(c.probes) <= IF c.phase = INITIAL_PASS THEN 64 ELSE 20
       /\ IF \E d \in calls : d.round = c.round
            THEN ContinuedInOrder(CHOOSE d \in calls : d.round = c.round, c)
            ELSE StartedAsPartition(c)]_vars

\* a round has started with a first-contact and a steady-state entity: the
\* first-contact probe is in flight and the steady-state entity waits
C30_Witness ==
  \E c \in calls :
     /\ c.phase = INITIAL_PASS
     /\ c.steady # << >>
     /\ \E p \in c.probes : p.timeoutMs = 2500
----------------------------------------------------------------------------
\* the probes call c holds after the step that the calls before it did not
NewlyIssuedIn(c) == c.probes \ UNION {d.probes : d \in {d \in calls : d.round = c.round}}

(* C31: within the first-contact pass of a round probes are issued in
   non-decreasing tier rank: the entities a step issues are in rank order, and
   none of them has a larger rank than an entity of the pass that still waits
   to be issued. *)
C31_FirstPassByTier ==
  [][\A c \in calls' :
       (c.phase = INITIAL_PASS /\ NewlyIssuedIn(c) # {}) =>
          /\ {p.ent : p \in NewlyIssuedIn(c)} = ListedIn(ev'.issued)
          /\ \A i, j \in 1..Len(ev'.issued) :
                i < j => TierRank(tier[ev'.issued[i]]) <= TierRank(tier[ev'.issued[j]])
          /\ \A x \in ListedIn(ev'.issued), e \in ListedIn(c.queue) :
                TierRank(tier[x]) <= TierRank(tier[e])]_vars

\* a first-contact pass has issued m2 (S+) before m1 (A), which the catalog
\* lists first
C31_Witness ==
  /\ ev.kind = "start" /\ ev.issued = <<"m2", "m1">>
  /\ \E c \in calls : c.phase = INITIAL_PASS /\ ProbedBy(c) = {"m1", "m2"}
----------------------------------------------------------------------------
(* C32: in every reachable state of the prober, overlapping rounds included,
   an entity with a non-empty history has a last code equal to the code of its
   newest history entry and the status the fixed table gives for that code
   (200 up, 401 noauth, 404 notfound, 429 ratelimit, 503 unavailable,
   000 timeout, any other code down). *)
C32_StatusFollowsNewest ==
  \A e \in Entities :
     Len(models[e].pings) > 0 =>
        LET newest == models[e].pings[Len(models[e].pings)].code
        IN /\ models[e].httpCode = newest
           /\ models[e].status =
                CASE newest = "200" -> "up"
                  [] newest = "401" -> "noauth"
                  [] newest = "404" -> "notfound"
                  [] newest = "429" -> "ratelimit"
                  [] newest = "503" -> "unavailable"
                  [] newest = "000" -> "timeout"
                  [] OTHER -> "down"

\* while two rounds overlap, a probe of an entity that already had a history
\* has timed out and has been committed
C32_Witness ==
  /\ Cardinality(calls) >= 2
  /\ ev.kind = "settle" /\ ev.code = "000"
  /\ Len(models[ev.ent].pings) >= 2
  /\ models[ev.ent].status = "timeout"
----------------------------------------------------------------------------
\* the items fn has not been invoked for, and those whose result is not stored
Unclaimed == {k \in 1..pLen : pCalls[k] = 0}
Unresolved == {k \in 1..pLen : pResults[k] = "none"}

(* C33: pooled is work-conserving: when an operation resolves and an unclaimed
   item remains, the first unclaimed item in list order is started in the same
   step in place of the resolved one, and the number of outstanding operations
   is min(limit, number of items not yet resolved) at every moment of the
   call. *)
C33_WorkConserving ==
  [][/\ (pPc = "running" /\ pEach' # pEach /\ Unclaimed # {}) =>
          LET first == CHOOSE k \in Unclaimed : \A j \in Unclaimed : k <= j
          IN /\ pCalls'[first] = 1
             /\ \E idx \in pActive : pActive' = (pActive \ {idx}) \cup {first}
     /\ pPc' # "idle" =>
          Cardinality(pActive') = Min(pLimit', Cardinality(Unresolved'))]_vars

\* limit 2, four items: the first item is still outstanding while the second
\* and third have resolved and the fourth has been started
C33_Witness ==
  /\ pPc = "running" /\ pLimit = 2 /\ pLen = 4
  /\ pActive = {1, 4}
  /\ Unresolved = {1, 4}
----------------------------------------------------------------------------
\* the positions of pEach at which the callback was invoked for index k
EachOf(k) == {i \in 1..Len(pEach) : pEach[i][1] = k}

(* C36: pooled invokes fn exactly once for every item, stores each result at
   the index of its item, invokes the per-item callback exactly once per item,
   with that item's result and index, in the step in which the item resolves,
   and resolves only after every item has resolved, also when fn rejects for
   some items: the rejection is that item's result and the other items are
   still processed. *)
C36_EveryItemOnce ==
  pPc # "idle" =>
    /\ \A k \in 1..pLen :
          /\ pCalls[k] <= 1
          /\ pResults[k] # "none" => pCalls[k] = 1
          /\ Cardinality(EachOf(k)) = IF pResults[k] = "none" THEN 0 ELSE 1
          /\ \A i \in EachOf(k) : pEach[i][2] = pResults[k]
    /\ pPc = "done" =>
          \A k \in 1..pLen : pCalls[k] = 1 /\ pResults[k] \in FnOutcomes

\* pooled has resolved a call of four items under limit 2 in which fn rejected
\* for the first item and fulfilled for a later one
C36_Witness ==
  /\ pPc = "done" /\ pLen = 4 /\ pLimit = 2
  /\ pResults[1] = "rej" /\ pResults[4] = "ok"
----------------------------------------------------------------------------
(* C35: a persistently failing entity is never excluded forever. After a
   failing commit the round in which the entity is due again is at most 32
   rounds ahead; a round that excludes the entity leaves it due within 31
   further rounds; and every round that starts when the entity is due, or
   when its counter is below the threshold, probes it. *)
C35_ExclusionBounded ==
  [][/\ (oEv'.kind = "commit" /\ oModel'.fails >= 3) =>
          oModel'.skipUntil - oCounter' <= 32
     /\ oCounter' = oCounter + 1 =>
          /\ oEv'.kind = "skip" =>
                (oModel.fails >= 3 /\ oModel.skipUntil - oCounter' \in 1..31)
          /\ (oModel.fails < 3 \/ oCounter' >= oModel.skipUntil) =>
                (oEv'.kind = "probe" /\ oFlight' = oFlight + 1)]_vars

\* after the 8th failure in a row, committed in round 34, the entity has been
\* excluded from 31 rounds and is probed again in round 66
C35_Witness ==
  /\ oEv.kind = "probe" /\ oModel.fails = 8
  /\ oCounter = oModel.skipUntil /\ oCounter = 66
----------------------------------------------------------------------------
(* C37: every byte the input dispatcher has received is part of exactly one
   dispatched event or still pending in the escape buffer, and the events are
   in the order of arrival: the dispatched events followed by the buffer spell
   the bytes delivered. In particular an escape byte that is pending when a
   multi-character chunk arrives is dispatched before the events of the
   chunk. *)
C37_EveryByteDispatchedOnce ==
  Flatten(dispatched) \o escBuf = DeliveredChars(inLog)

\* the step is a key event handled while `screens` contains the active screen,
\* and the process lives on
KeyHandledOn(screens) ==
  uiEv'.kind = "key" /\ uiEv'.on \in screens /\ ~ui'.exited

\* the view state of the main screen other than the scroll offset, and the
\* probe interval
ViewOf(u) ==
  <<u.cursor, u.sortCol, u.sortAsc, u.tierFilter, u.searchQuery, u.pingMs>>

(* C34 as stated: while the active screen is settings, target picker or help,
   no key event changes the cursor, the scroll offset, the sort column and
   direction, the tier filter, the search query or the probe interval. *)
C34_OffMainKeysKeepView ==
  [][KeyHandledOn({"settings", "target", "help"}) =>
       (ViewOf(ui') = ViewOf(ui) /\ ui'.scrollOff = ui.scrollOff)]_vars

(* C34: while the active screen is settings, target picker or help, no key
   event changes the cursor, the sort column and direction, the tier filter,
   the search query or the probe interval; the scroll offset changes only when
   the key returns to the main screen, whose render moves the window over the
   cursor. *)
C34_OffMainKeysKeepViewButScroll ==
  [][KeyHandledOn({"settings", "target", "help"}) =>
       /\ ViewOf(ui') = ViewOf(ui)
       /\ ui'.scrollOff # ui.scrollOff => ui'.screen = "main"]_vars

\* a key was handled on the settings screen, the picker or the help screen
\* while the cursor of the main screen was off the first row
C34_Witness ==
  /\ uiEv.kind = "key" /\ uiEv.on \in {"settings", "target", "help"}
  /\ ~ui.exited /\ ui.cursor > 0

(* C38: no probing loop is running while the settings screen is active. *)
C38_NoLoopInSettings ==
  ui.screen = "settings" => ~ui.running

(* C39: whenever the main screen is active after the initial load, a probing
   loop is running or a catalog refresh that will restart it is in progress. *)
C39_MainScreenHasLoop ==
  (ui.screen = "main" /\ ui.loaded /\ ~ui.exited) => (ui.running \/ ui.fetching > 0)

(* C40: in every reachable state of the interactive program
   0 <= cursor <= max(0, number of filtered rows - 1). *)
C40_CursorInRange ==
  0 <= ui.cursor /\ ui.cursor <= Max(0, Len(ui.filtered) - 1)

\* the cursor is on the last of several rows although the catalog holds more
\* rows than the filters let through
C40_Witness ==
  /\ ui.cursor >= 1 /\ ui.cursor = Len(ui.filtered) - 1
  /\ Len(ui.filtered) < Len(ui.models)
  /\ ui.userNavigated
====
